---- MODULE Spec2Model ----
(***************************************************************************)
(* Redfish v1 HTTP layer of the console: route dispatch, the               *)
(* ComputerSystem.Reset action, the Systems instance resource and the      *)
(* Chassis instance resource with its conditional-request handling.        *)
(* One request is handled at a time by one handler action; the backend     *)
(* (devices.Feature) is an external collaborator whose answers are drawn   *)
(* nondeterministically at the point where the handler calls it.           *)
(***************************************************************************)
EXTENDS Integers, Sequences, FiniteSets, TLC

VARIABLES
    req,        \* the request being answered (NoReq when the client is idle)
    resp,       \* the response written for req
    calls,      \* backend calls made while handling req, in order
    now,        \* wall-clock hour bucket (time.Now() truncated to the hour)
    hw,         \* backend hardware info per chassis id
    captured,   \* what the client kept from an earlier 200 Chassis response
    rng         \* state of the process-wide math/rand generator

vars == <<req, resp, calls, now, hw, captured, rng>>

----------------------------------------------------------------------------
(* Bounds of the model *)

MaxPowerCode == 9
MaxReturnValue == 2
MaxHour == 2
MaxDevices == 3
RngPeriod == 2

----------------------------------------------------------------------------
(* Strings: strings.ToLower, strings.Contains, strings.Trim, HasPrefix *)

UpperChars == "ABCDEFGHIJKLMNOPQRSTUVWXYZ"
LowerChars == "abcdefghijklmnopqrstuvwxyz"

CharAt(s, i) == SubSeq(s, i, i)

LowerChar(c) ==
    IF \E i \in 1..26 : CharAt(UpperChars, i) = c
    THEN CharAt(LowerChars, CHOOSE i \in 1..26 : CharAt(UpperChars, i) = c)
    ELSE c

RECURSIVE ToLower(_)
ToLower(s) ==
    IF s = "" THEN ""
    ELSE LowerChar(CharAt(s, 1)) \o ToLower(SubSeq(s, 2, Len(s)))

Contains(s, p) ==
    \E i \in 1..(Len(s) - Len(p) + 1) : SubSeq(s, i, i + Len(p) - 1) = p

ContainsAny(s, patterns) == \E p \in patterns : Contains(s, p)

HasPrefix(s, p) == Len(s) >= Len(p) /\ SubSeq(s, 1, Len(p)) = p

RECURSIVE TrimLeft(_, _)
TrimLeft(s, c) ==
    IF s # "" /\ CharAt(s, 1) = c THEN TrimLeft(SubSeq(s, 2, Len(s)), c) ELSE s

RECURSIVE TrimRight(_, _)
TrimRight(s, c) ==
    IF s # "" /\ CharAt(s, Len(s)) = c
    THEN TrimRight(SubSeq(s, 1, Len(s) - 1), c) ELSE s

Trim(s, c) == TrimRight(TrimLeft(s, c), c)

EqualFold(a, b) == ToLower(a) = ToLower(b)

----------------------------------------------------------------------------
(* Constants of the Systems resource *)

powerStateUnknown == "Unknown"
powerStateOn == "On"
powerStateOff == "Off"
resetTypeOn == "On"
resetTypeForceOff == "ForceOff"
resetTypeForceRestart == "ForceRestart"
resetTypePowerCycle == "PowerCycle"
actionPowerUp == 2
actionPowerCycle == 5
actionPowerDown == 8
actionReset == 10
cimPowerOn == 2
cimPowerSleep == 3
cimPowerStandby == 4
cimPowerSoftOff == 7
cimPowerHardOff == 8

BaseSuccessMessageID == "Base.1.11.0.Success"
BaseErrorMessageID == "Base.1.11.0.GeneralError"
BaseMalformedJSONID == "Base.1.11.0.MalformedJSON"
BasePropertyMissingID == "Base.1.11.0.PropertyMissing"
BasePropertyValueNotInListID == "Base.1.11.0.PropertyValueNotInList"
BaseResourceNotFoundID == "Base.1.11.0.ResourceNotFound"
BaseOperationNotAllowedID == "Base.1.11.0.OperationNotAllowed"
BaseActionNotSupportedID == "Base.1.11.0.ActionNotSupported"
BaseNotAcceptableID == "Base.1.11.0.NotAcceptable"

----------------------------------------------------------------------------
(* Requests, responses and the backend call log *)

Ids == {"device-1", "device-2"}

NoErr == ""

NoReq ==
    [method |-> "", route |-> "", id |-> "", body |-> <<>>, bodyOK |-> FALSE,
     accept |-> "", ifMatch |-> "", ifNoneMatch |-> "",
     contentType |-> "", contentLength |-> 0, bodySize |-> 0, item |-> ""]

NoResp ==
    [status |-> 0, allow |-> "", etag |-> "", odataVersion |-> "",
     body |-> "none", code |-> "", extendedInfo |-> 0, messageArgs |-> <<>>,
     TaskState |-> "", TaskStatus |-> "", MessageId |-> "", PowerState |-> "",
     members |-> <<>>, Id |-> ""]

\* Request headers a client may send besides the body. ContentLength is the
\* declared length, -1 when the body is sent chunked; bodySize is what the
\* body really holds.
maxRequestSize == 1048576

Headers(accept, contentType, contentLength, bodySize) ==
    [accept |-> accept, contentType |-> contentType,
     contentLength |-> contentLength, bodySize |-> bodySize]

NoHeaders == Headers("", "", 0, 0)

\* Accept and Content-Type values, and body sizes around the 1 MiB cap; one
\* header departs from the plain JSON request at a time, and two at once.
RequestHeaders ==
    {NoHeaders,
     Headers("application/json", "application/json", 20, 20),
     Headers("*/*", "application/json; charset=utf-8", 20, 20),
     Headers("text/html, application/json;q=0.9", "", 20, 20),
     Headers("text/xml", "application/json", 20, 20),
     Headers("", "text/plain", 20, 20),
     Headers("", "application/json", maxRequestSize, maxRequestSize),
     Headers("", "application/json", maxRequestSize + 1, maxRequestSize + 1),
     Headers("", "application/json", -1, maxRequestSize + 1),
     Headers("text/xml", "text/plain", maxRequestSize + 1, maxRequestSize + 1)}

WithHeaders(r, h) ==
    [r EXCEPT !.accept = h.accept, !.contentType = h.contentType,
              !.contentLength = h.contentLength, !.bodySize = h.bodySize]

\* A backend call as the handler made it, with the answer it got.
Call(op, id, action, err, val) ==
    [op |-> op, id |-> id, action |-> action, err |-> err, val |-> val,
     items |-> <<>>]

----------------------------------------------------------------------------
(* Error and header codec *)

\* SetRedfishHeaders: the standard headers, OData-Version among them.
SetRedfishHeaders(r) == [r EXCEPT !.odataVersion = "4.0"]

redfishErrorResponse_NoExtendedInfo(r, statusCode, messageID) ==
    [r EXCEPT !.odataVersion = "4.0", !.status = statusCode, !.body = "error",
              !.code = messageID]

\* redfishErrorResponse: standard headers, then the error envelope with one
\* @Message.ExtendedInfo element.
redfishErrorResponse(r, statusCode, messageID) ==
    [SetRedfishHeaders(r) EXCEPT !.status = statusCode, !.body = "error",
                                 !.code = messageID, !.extendedInfo = 1]

MalformedJSONError(r) == redfishErrorResponse(r, 400, BaseMalformedJSONID)
PropertyMissingError(r) == redfishErrorResponse(r, 400, BasePropertyMissingID)
PropertyValueNotInListError(r) ==
    redfishErrorResponse(r, 400, BasePropertyValueNotInListID)
ResourceNotFoundError(r) == redfishErrorResponse(r, 404, BaseResourceNotFoundID)
OperationNotAllowedError(r) ==
    redfishErrorResponse(r, 409, BaseOperationNotAllowedID)
GeneralError(r) == redfishErrorResponse(r, 500, BaseErrorMessageID)

\* Helpers of the error file whose bodies the tests pin down.
ServiceUnavailableError(r) == redfishErrorResponse(r, 502, BaseErrorMessageID)
BadGatewayError(r) == redfishErrorResponse(r, 502, BaseErrorMessageID)
ServiceTemporarilyUnavailableError(r) ==
    redfishErrorResponse(r, 503, BaseErrorMessageID)
\* NotAcceptableError names the unacceptable header value in the message.
NotAcceptableError(r, acceptHeader) ==
    [redfishErrorResponse(r, 406, BaseNotAcceptableID)
        EXCEPT !.messageArgs = <<acceptHeader>>]
UnsupportedMediaTypeError(r, contentType) ==
    [redfishErrorResponse(r, 415, BaseErrorMessageID)
        EXCEPT !.messageArgs = <<contentType>>]
RequestEntityTooLargeError(r) == redfishErrorResponse(r, 413, BaseErrorMessageID)
NotImplementedError(r) == redfishErrorResponse(r, 501, BaseErrorMessageID)
PreconditionFailedError(r) == redfishErrorResponse(r, 412, BaseErrorMessageID)
HTTPMethodNotAllowedError(r, allowedMethods) ==
    [redfishErrorResponse(r, 405, BaseOperationNotAllowedID)
        EXCEPT !.allow = allowedMethods]
MethodNotAllowedError(r, allowedMethods) ==
    [redfishErrorResponse(r, 405, BaseActionNotSupportedID)
        EXCEPT !.allow = allowedMethods]

----------------------------------------------------------------------------
(* Route table: what NewServiceRootRoutes, NewSystemsRoutes, NewChassisRoutes *)
(* and NewFirmwareRoutes register with the router                           *)

Methods == {"GET", "POST", "PUT", "PATCH", "DELETE"}

ServiceRootRoute == "/"
MetadataRoute == "$metadata"
SessionServiceRoute == "SessionService"
SessionsRoute == "SessionService/Sessions"
SystemsRoute == "Systems"
SystemRoute == "Systems/{id}"
ResetRoute == "Systems/{id}/Actions/ComputerSystem.Reset"
FirmwareRoute == "Systems/{id}/FirmwareInventory"
FirmwareItemRoute == "Systems/{id}/FirmwareInventory/{firmwareId}"
ChassisCollectionRoute == "Chassis"
ChassisRoute == "Chassis/{id}"

Routes ==
    {ServiceRootRoute, MetadataRoute, SessionServiceRoute, SessionsRoute,
     SystemsRoute, SystemRoute, ResetRoute, FirmwareRoute, FirmwareItemRoute,
     ChassisCollectionRoute, ChassisRoute}

Handler(name) == [handler |-> name, allow |-> ""]
\* A func(c) { HTTPMethodNotAllowedError(c, method, resource, allowed) }.
NotAllowed(allowed) == [handler |-> "HTTPMethodNotAllowedError", allow |-> allowed]
\* methodNotAllowedHandler(action, allowed) or MethodNotAllowedError(c, ...).
ActionNotAllowed(allowed) == [handler |-> "MethodNotAllowedError", allow |-> allowed]
Unregistered == [handler |-> "", allow |-> ""]

GetOnly(method, name) ==
    IF method = "GET" THEN Handler(name) ELSE NotAllowed("GET")

\* The handler registered for a method and a route pattern.
Route(method, route) ==
    CASE route = ServiceRootRoute -> GetOnly(method, "serviceRootHandler")
      [] route = MetadataRoute ->
            IF method = "GET" THEN Handler("metadataHandler") ELSE Unregistered
      [] route = SessionServiceRoute -> GetOnly(method, "sessionServiceHandler")
      [] route = SessionsRoute ->
            IF method = "GET" THEN Handler("sessionsCollectionHandler")
            ELSE IF method \in {"PUT", "PATCH", "DELETE"}
            THEN ActionNotAllowed("GET, POST")
            ELSE Unregistered
      [] route = SystemsRoute -> GetOnly(method, "getSystemsCollectionHandler")
      [] route = SystemRoute ->
            IF method = "GET" THEN Handler("getSystemInstanceHandler")
            ELSE Unregistered
      [] route = ResetRoute ->
            IF method = "POST" THEN Handler("postSystemResetHandler")
            ELSE ActionNotAllowed("POST")
      [] route = FirmwareRoute ->
            GetOnly(method, "getFirmwareInventoryCollectionHandler")
      [] route = FirmwareItemRoute ->
            GetOnly(method, "getFirmwareInventoryInstanceHandler")
      [] route = ChassisCollectionRoute ->
            GetOnly(method, "getChassisCollectionHandler")
      [] route = ChassisRoute ->
            IF method = "GET" THEN Handler("getChassisInstanceHandler")
            ELSE IF method = "PATCH" THEN Handler("patchChassisInstanceHandler")
            ELSE NotAllowed("GET, PATCH")

RouteRequest(method, route, id) ==
    [NoReq EXCEPT !.method = method, !.route = route,
                  !.id = IF Contains(route, "{id}") THEN id ELSE ""]

\* The anonymous handlers that answer HTTPMethodNotAllowedError.
httpMethodNotAllowedHandler ==
    /\ req = NoReq
    /\ \E method \in Methods, route \in Routes, id \in Ids :
         /\ Route(method, route).handler = "HTTPMethodNotAllowedError"
         /\ req' = RouteRequest(method, route, id)
         /\ resp' = HTTPMethodNotAllowedError(NoResp, Route(method, route).allow)
         /\ calls' = <<>>
    /\ UNCHANGED <<now, hw, captured, rng>>

\* methodNotAllowedHandler and the Sessions handlers: MethodNotAllowedError.
methodNotAllowedHandler ==
    /\ req = NoReq
    /\ \E method \in Methods, route \in Routes, id \in Ids :
         /\ Route(method, route).handler = "MethodNotAllowedError"
         /\ req' = RouteRequest(method, route, id)
         /\ resp' = MethodNotAllowedError(NoResp, Route(method, route).allow)
         /\ calls' = <<>>
    /\ UNCHANGED <<now, hw, captured, rng>>

MethodOrder == <<"GET", "POST", "PUT", "PATCH", "DELETE">>

RECURSIVE JoinRegistered(_, _)
JoinRegistered(route, i) ==
    IF i > Len(MethodOrder) THEN ""
    ELSE LET rest == JoinRegistered(route, i + 1)
         IN IF Route(MethodOrder[i], route).handler = "" THEN rest
            ELSE IF rest = "" THEN MethodOrder[i]
            ELSE MethodOrder[i] \o ", " \o rest

\* No handler is registered for the method on this path: the router (gin)
\* answers itself, in plain text: 404, or 405 when the engine was built with
\* HandleMethodNotAllowed (then with or without an Allow header, by version).
noRoute ==
    /\ req = NoReq
    /\ \E method \in Methods, route \in Routes, id \in Ids :
         /\ Route(method, route).handler = ""
         /\ req' = RouteRequest(method, route, id)
         /\ \E answer \in {[status |-> 404, allow |-> ""],
                           [status |-> 405, allow |-> ""],
                           [status |-> 405, allow |-> JoinRegistered(route, 1)]} :
                 resp' = [NoResp EXCEPT !.status = answer.status,
                                        !.body = "plain",
                                        !.allow = answer.allow]
         /\ calls' = <<>>
    /\ UNCHANGED <<now, hw, captured, rng>>

----------------------------------------------------------------------------
(* Backend answers (devices.Feature is an external collaborator) *)

\* Error texts a backend call may fail with: the ones the tests use, and
\* texts that match more than one pattern list.
ErrTexts ==
    {"device not found", "general failure", "context canceled",
     "connection timeout to AMT device", "WSMAN authentication failed",
     "dial tcp: network unreachable", "too many connections to service",
     "rate limit exceeded for client", "system in maintenance mode",
     "Device Not Found", "DevicesUseCase - SendPowerAction - failed",
     "devicesusecase failure", "timeout: device not found",
     "request throttled by AMT", "Circuit Breaker open",
     "not found: too many requests"}

\* GetPowerState: an error, or a dto.PowerState carrying a CIM power code.
PowerStateAnswers ==
    [err : {NoErr}, code : -1..MaxPowerCode]
        \cup [err : {"power state check failed", "context canceled"}, code : {0}]

\* SendPowerAction: an error, or a response carrying a ReturnValue.
PowerActionAnswers ==
    [err : {NoErr}, ReturnValue : 0..MaxReturnValue]
        \cup [err : ErrTexts, ReturnValue : {0}]

----------------------------------------------------------------------------
(* Request bodies and gin's ShouldBindJSON into struct{ResetType string} *)

Member(key, kind, str) == [key |-> key, kind |-> kind, str |-> str]

Members ==
    {Member("ResetType", "string", v) :
        v \in {resetTypeOn, resetTypeForceOff, resetTypeForceRestart,
               resetTypePowerCycle, "", "on", "InvalidResetType"}}
    \cup {Member("ResetType", "null", ""), Member("ResetType", "number", ""),
          Member("resettype", "string", resetTypeForceRestart),
          Member("SomeOtherProperty", "string", "value")}

\* Members that also occur in two-member bodies: a valid value, a second
\* valid value, the type error, null, the case-folded key, an unknown key.
PairMembers ==
    {Member("ResetType", "string", resetTypeOn),
     Member("ResetType", "string", resetTypeForceOff),
     Member("ResetType", "null", ""), Member("ResetType", "number", ""),
     Member("resettype", "string", resetTypeForceRestart),
     Member("SomeOtherProperty", "string", "value")}

\* A body is unparseable (ok = FALSE: invalid JSON or no body at all) or a
\* JSON object, its members in document order.
Bodies ==
    {[ok |-> FALSE, members |-> <<>>], [ok |-> TRUE, members |-> <<>>]}
    \cup {[ok |-> TRUE, members |-> <<m>>] : m \in Members}
    \cup {[ok |-> TRUE, members |-> <<m1, m2>>] :
              m1 \in PairMembers, m2 \in PairMembers}

\* encoding/json matches a member to the field by name, ignoring case; a
\* string is stored, null leaves the field alone, any other type is an
\* UnmarshalTypeError reported after the whole object was read; members
\* that match no field are skipped.
RECURSIVE DecodeMembers(_, _)
DecodeMembers(members, acc) ==
    IF members = <<>> THEN acc
    ELSE LET m == Head(members)
             next ==
                 IF ~EqualFold(m.key, "ResetType") THEN acc
                 ELSE IF m.kind = "string" THEN [acc EXCEPT !.ResetType = m.str]
                 ELSE IF m.kind = "null" THEN acc
                 ELSE [acc EXCEPT !.err = TRUE]
         IN DecodeMembers(Tail(members), next)

ShouldBindJSON(b) ==
    IF ~b.ok THEN [err |-> TRUE, ResetType |-> ""]
    ELSE DecodeMembers(b.members, [err |-> FALSE, ResetType |-> ""])

----------------------------------------------------------------------------
(* ComputerSystem.Reset *)

ResetTypes ==
    {resetTypeOn, resetTypeForceOff, resetTypeForceRestart, resetTypePowerCycle}

ResetAction_DefaultsToReset(resetType) ==
    CASE resetType = resetTypeOn -> actionPowerUp
      [] resetType = resetTypeForceOff -> actionPowerDown
      [] resetType = resetTypePowerCycle -> actionPowerCycle
      [] OTHER -> actionReset

ResetAction_CycleForRestart(resetType) ==
    CASE resetType = resetTypeOn -> actionPowerUp
      [] resetType = resetTypeForceOff -> actionPowerDown
      [] resetType = resetTypeForceRestart -> actionPowerCycle
      [] resetType = resetTypePowerCycle -> actionPowerCycle
      [] OTHER -> 0

\* The switch on body.ResetType: the action code, or 0 for the default case.
ResetAction(resetType) ==
    CASE resetType = resetTypeOn -> actionPowerUp
      [] resetType = resetTypeForceOff -> actionPowerDown
      [] resetType = resetTypeForceRestart -> actionReset
      [] resetType = resetTypePowerCycle -> actionPowerCycle
      [] OTHER -> 0

isCurrentlyOn(code) == code = cimPowerOn

isCurrentlyOff_HardOffOnly(code) == code = cimPowerHardOff

isCurrentlyOff(code) == code = cimPowerSoftOff \/ code = cimPowerHardOff

shouldReturnConflict(action, code) ==
    CASE action = actionPowerUp -> isCurrentlyOn(code)
      [] action = actionPowerDown -> isCurrentlyOff(code)
      [] OTHER -> FALSE

\* The guard is evaluated only when GetPowerState returned no error.
conflictCheck_FailClosed(ps, action) ==
    ps.err # NoErr \/ shouldReturnConflict(action, ps.code)

conflictCheck(ps, action) ==
    ps.err = NoErr /\ shouldReturnConflict(action, ps.code)

upstreamErrors ==
    {"connection refused", "connection timeout", "timeout",
     "network unreachable", "no route to host", "connection reset", "wsman",
     "amt", "unauthorized", "certificate", "ssl", "tls", "dial tcp",
     "i/o timeout", "connection aborted", "host unreachable"}

isUpstreamCommunicationError(err) ==
    err # NoErr /\ ContainsAny(ToLower(err), upstreamErrors)

serviceUnavailableErrors ==
    {"too many connections", "connection pool exhausted", "database pool full",
     "service overloaded", "maintenance mode", "rate limit exceeded",
     "too many requests", "resource exhausted", "service unavailable",
     "temporarily unavailable", "max connections reached", "server overloaded",
     "capacity exceeded", "throttled", "circuit breaker"}

isServiceTemporarilyUnavailable(err) ==
    err # NoErr /\ ContainsAny(ToLower(err), serviceUnavailableErrors)

ResetErrorResponse_UpstreamFirst(err) ==
    IF isUpstreamCommunicationError(err)
    THEN ServiceUnavailableError(NoResp)
    ELSE IF isServiceTemporarilyUnavailable(err)
    THEN ServiceTemporarilyUnavailableError(NoResp)
    ELSE IF Contains(ToLower(err), "not found") \/ Contains(err, "DevicesUseCase")
    THEN ResourceNotFoundError(NoResp)
    ELSE GeneralError(NoResp)

\* The if/else-if chain on SendPowerAction's error.
ResetErrorResponse(err) ==
    IF Contains(ToLower(err), "not found") \/ Contains(err, "DevicesUseCase")
    THEN ResourceNotFoundError(NoResp)
    ELSE IF isServiceTemporarilyUnavailable(err)
    THEN ServiceTemporarilyUnavailableError(NoResp)
    ELSE IF isUpstreamCommunicationError(err)
    THEN ServiceUnavailableError(NoResp)
    ELSE GeneralError(NoResp)

TaskResponse_AlwaysCompleted(returnValue) ==
    [SetRedfishHeaders(NoResp) EXCEPT
        !.status = 200, !.body = "task", !.TaskState = "Completed",
        !.TaskStatus = "OK", !.MessageId = BaseSuccessMessageID]

\* The Task synthesized once SendPowerAction returned without error.
TaskResponse(returnValue) ==
    [SetRedfishHeaders(NoResp) EXCEPT
        !.status = 200, !.body = "task",
        !.TaskState = IF returnValue # 0 THEN "Exception" ELSE "Completed",
        !.TaskStatus = IF returnValue # 0 THEN "Critical" ELSE "OK",
        !.MessageId = IF returnValue # 0 THEN BaseErrorMessageID
                      ELSE BaseSuccessMessageID]

SendPowerAction_RetriesOnError(id, action, pa) ==
    LET c == Call("SendPowerAction", id, action, pa.err, pa.ReturnValue)
    IN IF pa.err # NoErr THEN <<c, c>> ELSE <<c>>

\* The backend calls made by the one d.SendPowerAction statement, whose
\* answer is pa.
SendPowerAction(id, action, pa) ==
    <<Call("SendPowerAction", id, action, pa.err, pa.ReturnValue)>>

\* rand.Intn on the process-wide generator: the number drawn in a state of
\* the generator, and the state the draw leaves it in.
Intn(state) == [n |-> state, next |-> (state + 1) % RngPeriod]

\* fmt.Sprintf("%d", rand.Intn(999999)+100000)
TaskID(state) == "10000" \o CharAt("0123456789", Intn(state).n + 1)

ResetRequest(id, b) ==
    [NoReq EXCEPT !.method = "POST", !.route = ResetRoute,
                  !.id = id, !.body = b.members, !.bodyOK = b.ok]

\* The handler on a request with one of the given bodies and headers; it
\* reads the path id and the body, and no header.
ResetHandler(bodies, headers) ==
    /\ req = NoReq
    /\ Route("POST", ResetRoute).handler = "postSystemResetHandler"
    /\ \E id \in Ids, b \in bodies, h \in headers :
         LET body == ShouldBindJSON(b)
             action == ResetAction(body.ResetType)
         IN /\ req' = WithHeaders(ResetRequest(id, b), h)
            /\ IF body.err
               THEN resp' = MalformedJSONError(NoResp) /\ calls' = <<>>
               ELSE IF body.ResetType = ""
               THEN resp' = PropertyMissingError(NoResp) /\ calls' = <<>>
               ELSE IF action = 0
               THEN resp' = PropertyValueNotInListError(NoResp) /\ calls' = <<>>
               ELSE \E ps \in PowerStateAnswers :
                      LET c1 == Call("GetPowerState", id, 0, ps.err, ps.code)
                      IN IF conflictCheck(ps, action)
                         THEN /\ resp' = OperationNotAllowedError(NoResp)
                              /\ calls' = <<c1>>
                         ELSE \E pa \in PowerActionAnswers :
                                /\ calls' = <<c1>> \o SendPowerAction(id, action, pa)
                                /\ resp' = IF pa.err # NoErr
                                           THEN ResetErrorResponse(pa.err)
                                           ELSE [TaskResponse(pa.ReturnValue)
                                                   EXCEPT !.Id = TaskID(rng)]
    /\ rng' = IF resp'.body = "task" THEN Intn(rng).next ELSE rng
    /\ UNCHANGED <<now, hw, captured>>

\* Reset requests over every body, sent as plain JSON requests.
postSystemResetHandler == ResetHandler(Bodies, {NoHeaders})

\* Bodies of the Reset requests that vary the headers: unparseable, no
\* ResetType, an unknown ResetType, and two valid ones.
HeaderBodies ==
    {[ok |-> FALSE, members |-> <<>>], [ok |-> TRUE, members |-> <<>>],
     [ok |-> TRUE, members |-> <<Member("ResetType", "string", "InvalidResetType")>>],
     [ok |-> TRUE, members |-> <<Member("ResetType", "string", resetTypeOn)>>],
     [ok |-> TRUE, members |-> <<Member("ResetType", "string", resetTypeForceRestart)>>]}

\* Reset requests over every header combination.
postSystemResetWithHeaders == ResetHandler(HeaderBodies, RequestHeaders)

----------------------------------------------------------------------------
(* Systems collection *)

GUIDs == {"", "device-1", "device-2"}

\* The device lists the backend's Get may return, by GUID.
DeviceLists ==
    UNION {[1..n -> GUIDs] : n \in 0..MaxDevices}

\* Get fails with one of these texts, or returns a device list.
GetErrTexts ==
    {"service unavailable", "backend connection failed", "context canceled",
     "connection refused", "Connection Timeout", "rate limit exceeded",
     "device not found", "maintenance mode: timeout"}

GetAnswers ==
    [err : {NoErr}, items : DeviceLists] \cup [err : GetErrTexts, items : {<<>>}]

CollectionMembers_KeepsEmpty(items, path) ==
    [i \in DOMAIN items |-> path \o items[i]]

\* The member loop of both collections: one reference per device with a
\* GUID, in order.
RECURSIVE CollectionMembers(_, _)
CollectionMembers(items, path) ==
    IF items = <<>> THEN <<>>
    ELSE IF Head(items) = "" THEN CollectionMembers(Tail(items), path)
    ELSE <<path \o Head(items)>> \o CollectionMembers(Tail(items), path)

SystemsCollectionErrorResponse(err) ==
    IF isServiceTemporarilyUnavailable(err)
    THEN ServiceTemporarilyUnavailableError(NoResp)
    ELSE IF isUpstreamCommunicationError(err)
    THEN ServiceUnavailableError(NoResp)
    ELSE GeneralError(NoResp)

getSystemsCollectionHandler ==
    /\ req = NoReq
    /\ Route("GET", SystemsRoute).handler = "getSystemsCollectionHandler"
    /\ \E h \in RequestHeaders, ans \in GetAnswers :
         /\ req' = WithHeaders([NoReq EXCEPT !.method = "GET",
                                             !.route = SystemsRoute], h)
         /\ calls' = <<[Call("Get", "", 0, ans.err, 0) EXCEPT !.items = ans.items]>>
         /\ resp' = IF ans.err # NoErr
                    THEN SystemsCollectionErrorResponse(ans.err)
                    ELSE [NoResp EXCEPT
                            !.status = 200, !.body = "collection",
                            !.members = CollectionMembers(ans.items,
                                                          "/redfish/v1/Systems/")]
    /\ UNCHANGED <<now, hw, captured, rng>>

----------------------------------------------------------------------------
(* Systems instance *)

PowerStateName_SleepUnknown(code) ==
    CASE code = actionPowerUp -> powerStateOn
      [] code = cimPowerSoftOff \/ code = cimPowerHardOff -> powerStateOff
      [] OTHER -> powerStateUnknown

\* The switch on ps.PowerState.
PowerStateName(code) ==
    CASE code = actionPowerUp -> powerStateOn
      [] code = cimPowerSleep \/ code = cimPowerStandby -> powerStateOn
      [] code = cimPowerSoftOff \/ code = cimPowerHardOff -> powerStateOff
      [] OTHER -> powerStateUnknown

getSystemInstanceHandler ==
    /\ req = NoReq
    /\ Route("GET", SystemRoute).handler = "getSystemInstanceHandler"
    /\ \E id \in Ids, ps \in PowerStateAnswers, accept \in {"", "text/xml"} :
         /\ req' = [NoReq EXCEPT !.method = "GET", !.route = SystemRoute,
                                 !.id = id, !.accept = accept]
         /\ calls' = <<Call("GetPowerState", id, 0, ps.err, ps.code)>>
         /\ resp' = [NoResp EXCEPT
                        !.status = 200, !.body = "system",
                        !.PowerState = IF ps.err # NoErr THEN powerStateUnknown
                                       ELSE PowerStateName(ps.code)]
    /\ UNCHANGED <<now, hw, captured, rng>>

----------------------------------------------------------------------------
(* Backend hardware info: untyped payloads *)

Nil == [kind |-> "nil"]
Str(v) == [kind |-> "string", s |-> v]
Num(n) == [kind |-> "number", n |-> n]
Map(m) == [kind |-> "map", m |-> m]
List(l) == [kind |-> "list", l |-> l]
Struct == [kind |-> "struct"]

HasKey(v, key) == v.kind = "map" /\ key \in DOMAIN v.m

CIMChassis(response) == Map([CIM_Chassis |-> Map([response |-> response])])

DellItem ==
    Map([Manufacturer |-> Str("Dell Inc."), Model |-> Str("PowerEdge R640"),
         SerialNumber |-> Str("ABC123456"), PackageType |-> Str("3")])

HPEItem ==
    Map([Manufacturer |-> Str("HPE"), Model |-> Str("ProLiant DL380"),
         SerialNumber |-> Str("SGH123XYZ"), PartNumber |-> Str("P-1"),
         SKU |-> Str(""), Tag |-> Num(7), PackageType |-> Num(4)])

\* The hardware info a chassis may have in the backend.
HwInfos == {Nil, CIMChassis(List(<<DellItem>>)), CIMChassis(HPEItem)}

\* GetHardwareInfo fails with one of these texts, or returns hw[id].
HwErrTexts ==
    {"device not found", "connection timeout", "rate limit reached",
     "context canceled"}

----------------------------------------------------------------------------
(* Chassis: request validation *)

acceptAll == "*/*"
contentTypeJSON == "application/json"
unknownValue == "Unknown"
chassisTypeRackMount == "RackMount"
chassisTypeDesktop == "Desktop"
chassisTypeUnknown == "Unknown"

\* isAcceptHeaderValid: TRUE when the Accept header is acceptable.
isAcceptHeaderValid(acceptHeader) ==
    ~(acceptHeader # "" /\ acceptHeader # acceptAll
        /\ acceptHeader # contentTypeJSON
        /\ ~Contains(acceptHeader, contentTypeJSON)
        /\ ~Contains(acceptHeader, acceptAll))

\* validateIfMatchHeader: TRUE when the request may proceed.
validateIfMatchHeader(ifMatch, currentETag) ==
    IF ifMatch = "" THEN TRUE
    ELSE LET m == Trim(ifMatch, "\"")
             e == Trim(currentETag, "\"")
         IN ~(m # "*" /\ m # e)

validateIfNoneMatchHeader_NeverNotModified(method, ifNoneMatch, currentETag) ==
    TRUE

\* validateIfNoneMatchHeader: FALSE when the answer is 304 Not Modified.
validateIfNoneMatchHeader(method, ifNoneMatch, currentETag) ==
    IF ifNoneMatch = "" \/ method # "GET" THEN TRUE
    ELSE LET m == Trim(ifNoneMatch, "\"")
             e == Trim(currentETag, "\"")
         IN ~(m = "*" \/ m = e)

\* setETagHeader: the ETag header is the etag in double quotes (%q).
QuotedETag(etag) == "\"" \o etag \o "\""

----------------------------------------------------------------------------
(* Chassis: hardware info errors and parsing *)

isResourceNotFoundError(errorStr) ==
    \/ Contains(errorStr, "not found")
    \/ Contains(errorStr, "invalid")
    \/ Contains(errorStr, "does not exist")

isUpstreamServiceError(errorStr) ==
    \/ Contains(errorStr, "connection refused")
    \/ Contains(errorStr, "timeout")
    \/ Contains(errorStr, "unreachable")

isRateLimitError(errorStr) ==
    \/ Contains(errorStr, "too many requests")
    \/ Contains(errorStr, "rate limit")
    \/ Contains(errorStr, "overloaded")

----------------------------------------------------------------------------
(* BIOS information from the hardware info *)

systemManufacturer == "System Manufacturer"

\* A native struct reached by reflection: its fields in declaration order.
Field(name, value) == [name |-> name, value |-> value]
StructOf(fields) == [kind |-> "struct", f |-> fields]

\* time.Now().UTC().Format("2006-01-02") in hour bucket h: the clock starts
\* at midnight, so the date changes at hour 24.
DateStamp(h) == IF h \div 24 = 0 THEN "2025-11-04" ELSE "2025-11-05"

\* time.Parse(time.RFC3339, s) succeeds: for UTC stamps YYYY-MM-DDTHH:MM:SSZ
\* (the fields of the model's inputs are in range).
IsRFC3339(s) ==
    /\ Len(s) = 20
    /\ \A i \in 1..20 :
         CASE i \in {5, 8} -> CharAt(s, i) = "-"
           [] i = 11 -> CharAt(s, i) = "T"
           [] i \in {14, 17} -> CharAt(s, i) = ":"
           [] i = 20 -> CharAt(s, i) = "Z"
           [] OTHER -> \E d \in 1..10 : CharAt("0123456789", d) = CharAt(s, i)

\* The defaults every BIOS parser starts from.
BIOSDefaults(hour) ==
    [version |-> unknownValue, versionString |-> unknownValue,
     manufacturer |-> systemManufacturer, releaseDate |-> DateStamp(hour)]

extractReleaseDateFromMap(releaseDateObj, defaultReleaseDate) ==
    IF releaseDateObj.kind # "map" THEN defaultReleaseDate
    ELSE IF ~HasKey(releaseDateObj, "DateTime") THEN defaultReleaseDate
    ELSE LET dateTime == releaseDateObj.m["DateTime"]
         IN IF dateTime.kind # "string" THEN defaultReleaseDate
            ELSE IF dateTime.s = "" \/ ~IsRFC3339(dateTime.s) THEN defaultReleaseDate
            ELSE SubSeq(dateTime.s, 1, 10)

parseFromResponseMap_KeepsEmptyVersion(responseMap, hour) ==
    [BIOSDefaults(hour) EXCEPT
        !.version = IF HasKey(responseMap, "Version")
                         /\ responseMap.m["Version"].kind = "string"
                    THEN responseMap.m["Version"].s ELSE @]

parseFromResponseMap(responseMap, hour) ==
    LET d == BIOSDefaults(hour)
        supplied(key) == /\ HasKey(responseMap, key)
                         /\ responseMap.m[key].kind = "string"
                         /\ responseMap.m[key].s # ""
        version == IF supplied("Version") THEN responseMap.m["Version"].s
                   ELSE d.version
        releaseDate == IF HasKey(responseMap, "ReleaseDate")
                       THEN extractReleaseDateFromMap(responseMap.m["ReleaseDate"],
                                                      d.releaseDate)
                       ELSE d.releaseDate
    IN [version |-> version,
        versionString |->
            IF HasKey(responseMap, "ReleaseDate") /\ version # unknownValue
            THEN version \o " (Released: " \o releaseDate \o ")"
            ELSE version,
        manufacturer |-> IF supplied("Manufacturer")
                         THEN responseMap.m["Manufacturer"].s ELSE d.manufacturer,
        releaseDate |-> releaseDate]

extractReleaseDateFromStruct(fieldValue, defaultReleaseDate) ==
    IF fieldValue.kind # "struct" THEN defaultReleaseDate
    ELSE IF ~\E i \in DOMAIN fieldValue.f : fieldValue.f[i].name = "DateTime"
    THEN defaultReleaseDate
    ELSE LET dateTimeField ==
                 fieldValue.f[CHOOSE i \in DOMAIN fieldValue.f :
                                  fieldValue.f[i].name = "DateTime"].value
         IN IF dateTimeField.kind # "string" THEN defaultReleaseDate
            ELSE IF dateTimeField.s = "" \/ ~IsRFC3339(dateTimeField.s)
            THEN defaultReleaseDate
            ELSE SubSeq(dateTimeField.s, 1, 10)

\* The loop over the struct's fields, in declaration order.
RECURSIVE extractFieldsFromStruct(_, _)
extractFieldsFromStruct(fields, acc) ==
    IF fields = <<>> THEN acc
    ELSE LET field == Head(fields)
             str == field.value.kind = "string" /\ field.value.s # ""
             releaseDate == extractReleaseDateFromStruct(field.value, acc.releaseDate)
             next ==
               CASE field.name = "Version" ->
                      [acc EXCEPT
                          !.version = IF str THEN field.value.s ELSE unknownValue,
                          !.versionString = IF str THEN field.value.s
                                            ELSE unknownValue]
                 [] field.name = "Manufacturer" ->
                      [acc EXCEPT
                          !.manufacturer = IF str THEN field.value.s
                                           ELSE systemManufacturer]
                 [] field.name = "ReleaseDate" ->
                      [acc EXCEPT
                          !.releaseDate = releaseDate,
                          !.versionString =
                              IF acc.version # unknownValue
                              THEN acc.version \o " (Released: " \o releaseDate \o ")"
                              ELSE @]
                 [] OTHER -> acc
         IN extractFieldsFromStruct(Tail(fields), next)

parseFromStruct(response, hour) ==
    IF response.kind = "struct"
    THEN extractFieldsFromStruct(response.f, BIOSDefaults(hour))
    ELSE BIOSDefaults(hour)

parseResponse(response, hour) ==
    IF response.kind = "map" THEN parseFromResponseMap(response, hour)
    ELSE parseFromStruct(response, hour)

parseFromMap(hwInfoMap, hour) ==
    IF /\ HasKey(hwInfoMap, "CIM_BIOSElement")
       /\ HasKey(hwInfoMap.m["CIM_BIOSElement"], "response")
    THEN parseResponse(hwInfoMap.m["CIM_BIOSElement"].m["response"], hour)
    ELSE BIOSDefaults(hour)

extractBIOSDetails(hwInfo, hour) ==
    IF hwInfo.kind = "map" THEN parseFromMap(hwInfo, hour) ELSE BIOSDefaults(hour)

parseBIOSInfo(hwInfo, hour) == extractBIOSDetails(hwInfo, hour)

\* generateETag: a weak ETag over the SHA-256 of the content.
generateETag(content) == "W/\"sha256(" \o content \o ")\""

----------------------------------------------------------------------------
(* Hardware info payloads of every shape *)

CIM(chassis, bios) ==
    Map([CIM_Chassis |-> Map([response |-> chassis]),
         CIM_BIOSElement |-> Map([response |-> bios])])

BIOSMap ==
    Map([Version |-> Str("1.2.3"), Manufacturer |-> Str("Dell Inc."),
         ReleaseDate |-> Map([DateTime |-> Str("2023-05-17T00:00:00Z")])])

Payloads ==
    {Nil, Str("unexpected"), Map([Other |-> Nil]),
     Map([CIM_Chassis |-> Str("x"), CIM_BIOSElement |-> Str("x")]),
     Map([CIM_Chassis |-> Map([status |-> Num(0)]),
          CIM_BIOSElement |-> Map([status |-> Num(0)])]),
     CIM(Nil, Nil),
     CIM(List(<<DellItem>>), BIOSMap),
     CIM(HPEItem,
         Map([Version |-> Str(""), Manufacturer |-> Num(3),
              ReleaseDate |-> Map([DateTime |-> Str("yesterday")])])),
     CIM(List(<<>>), List(<<BIOSMap>>)),
     CIM(List(<<Str("x"), DellItem>>),
         Map([Version |-> Str("1.2.3"), ReleaseDate |-> Str("2023")])),
     CIM(StructOf(<<Field("Model", Str("NUC"))>>),
         StructOf(<<Field("Version", Str("2.0")), Field("Manufacturer", Str("")),
                    Field("ReleaseDate",
                          StructOf(<<Field("DateTime",
                                           Str("2024-01-02T03:04:05Z"))>>))>>)),
     CIM(Map([Model |-> Nil, PackageType |-> Str("Tower")]),
         StructOf(<<Field("ReleaseDate", Nil), Field("Version", Num(2))>>))}

----------------------------------------------------------------------------
handleHardwareInfoError(r, errorStr) ==
    IF isResourceNotFoundError(errorStr) THEN ResourceNotFoundError(r)
    ELSE IF isUpstreamServiceError(errorStr) THEN BadGatewayError(r)
    ELSE IF isRateLimitError(errorStr) THEN ServiceTemporarilyUnavailableError(r)
    ELSE ResourceNotFoundError(r)

createDefaultChassisInfo ==
    [Name |-> "System Chassis", Description |-> "Computer System Chassis",
     ChassisType |-> chassisTypeUnknown, Manufacturer |-> unknownValue,
     Model |-> unknownValue, SKU |-> "", SerialNumber |-> "",
     PartNumber |-> "", AssetTag |-> "", PowerState |-> "On"]

\* fmt.Sprintf("%.0f") of the numeric package types of the model.
FormatNumber(n) ==
    IF n \in 0..9 THEN CharAt("0123456789", n + 1) ELSE "10"

mapPackageTypeToChassisType(packageType) ==
    IF packageType.kind \notin {"string", "number"} THEN chassisTypeUnknown
    ELSE LET packageTypeStr == IF packageType.kind = "string" THEN packageType.s
                               ELSE FormatNumber(packageType.n)
             packageTypeLower == ToLower(packageTypeStr)
         IN CASE packageTypeLower \in {"rack", "rackmount", "1u", "2u", "4u"} ->
                    chassisTypeRackMount
              [] packageTypeLower \in {"desktop", "tower", "minitower"} ->
                    chassisTypeDesktop
              [] packageTypeLower \in {"3", "4"} -> chassisTypeRackMount
              [] packageTypeLower = "2" -> chassisTypeDesktop
              [] OTHER -> chassisTypeUnknown

\* setStringField: the value applies when the key holds a non-empty string.
StringField(chassisMap, fieldName, old) ==
    IF HasKey(chassisMap, fieldName) /\ chassisMap.m[fieldName].kind = "string"
         /\ chassisMap.m[fieldName].s # ""
    THEN chassisMap.m[fieldName].s ELSE old

populateBasicInfo(info, chassisMap) ==
    LET model == StringField(chassisMap, "Model", info.Model)
    IN [info EXCEPT
          !.Manufacturer = StringField(chassisMap, "Manufacturer", @),
          !.Model = model,
          !.Name = IF model # info.Model \/ StringField(chassisMap, "Model", "") # ""
                   THEN model \o " Chassis" ELSE @,
          !.SerialNumber = StringField(chassisMap, "SerialNumber", @),
          !.PartNumber = StringField(chassisMap, "PartNumber", @),
          !.SKU = StringField(chassisMap, "SKU", @),
          !.AssetTag = StringField(chassisMap, "Tag", @)]

populateChassisType(info, chassisMap) ==
    IF HasKey(chassisMap, "PackageType") /\ chassisMap.m["PackageType"].kind # "nil"
    THEN [info EXCEPT !.ChassisType =
              mapPackageTypeToChassisType(chassisMap.m["PackageType"])]
    ELSE info

updateDescription(info) ==
    IF info.Manufacturer # unknownValue /\ info.Model # unknownValue
    THEN [info EXCEPT !.Description =
              info.Manufacturer \o " " \o info.Model \o " Chassis"]
    ELSE info

populateChassisInfo(info, chassisItem) ==
    IF chassisItem.kind # "map" THEN info
    ELSE updateDescription(
             populateChassisType(populateBasicInfo(info, chassisItem), chassisItem))

extractChassisDetails(response) ==
    IF response.kind = "nil" THEN createDefaultChassisInfo
    ELSE LET chassisItems == IF response.kind = "list" THEN response.l
                             ELSE <<response>>
         IN IF Len(chassisItems) > 0
            THEN populateChassisInfo(createDefaultChassisInfo, chassisItems[1])
            ELSE createDefaultChassisInfo

parseChassisInfo(hardwareInfo) ==
    IF hardwareInfo.kind # "map" THEN createDefaultChassisInfo
    ELSE IF ~HasKey(hardwareInfo, "CIM_Chassis") THEN createDefaultChassisInfo
    ELSE IF hardwareInfo.m["CIM_Chassis"].kind # "map" THEN createDefaultChassisInfo
    ELSE IF ~HasKey(hardwareInfo.m["CIM_Chassis"], "response")
    THEN createDefaultChassisInfo
    ELSE extractChassisDetails(hardwareInfo.m["CIM_Chassis"].m["response"])

----------------------------------------------------------------------------
(* Chassis: ETag and the instance handler *)

\* time.Now().Format("2006-01-02T15") in hour bucket h.
HourStamp(h) ==
    DateStamp(h) \o "T" \o CharAt("0123456789", ((h % 24) \div 10) + 1)
        \o CharAt("0123456789", (h % 10) + 1)

\* The first 16 hex digits of SHA-256 over the JSON of the five identifying
\* fields and the hour stamp: modelled as a digest that differs whenever its
\* input differs.
generateChassisInstanceETag(chassisInfo, hour) ==
    "sha256(" \o chassisInfo.Manufacturer \o "," \o chassisInfo.Model \o ","
        \o chassisInfo.SerialNumber \o "," \o chassisInfo.PartNumber \o ","
        \o chassisInfo.SKU \o "," \o HourStamp(hour) \o ")"

\* What GetHardwareInfo answers: an error text, or no error and hw[id].
HardwareInfoAnswers == {NoErr} \cup HwErrTexts

AcceptHeaders == {"", "application/json", "text/xml"}

\* Conditional headers a client may send: none, any, a stale value, or the
\* ETag header it captured (as received, or without the quotes).
ConditionalHeaders ==
    {"", "*", "\"0123456789abcdef\""}
        \cup (IF captured.etag = "" THEN {}
              ELSE {captured.etag, Trim(captured.etag, "\"")})

getChassisInstanceHandler ==
    /\ req = NoReq
    /\ Route("GET", ChassisRoute).handler = "getChassisInstanceHandler"
    /\ \E id \in Ids, accept \in AcceptHeaders, ifMatch \in ConditionalHeaders,
          ifNoneMatch \in ConditionalHeaders :
         LET r == [NoReq EXCEPT !.method = "GET", !.route = ChassisRoute,
                                !.id = id, !.accept = accept,
                                !.ifMatch = ifMatch, !.ifNoneMatch = ifNoneMatch]
             headers == SetRedfishHeaders(NoResp)
         IN /\ req' = r
            /\ IF ~isAcceptHeaderValid(accept)
               THEN resp' = NotAcceptableError(headers, accept) /\ calls' = <<>>
               ELSE IF id = ""
               THEN resp' = ResourceNotFoundError(headers) /\ calls' = <<>>
               ELSE \E err \in HardwareInfoAnswers :
                      /\ calls' = <<Call("GetHardwareInfo", id, 0, err, 0)>>
                      /\ IF err # NoErr
                         THEN resp' = handleHardwareInfoError(headers, err)
                         ELSE LET chassisInfo == parseChassisInfo(hw[id])
                                  etag == generateChassisInstanceETag(chassisInfo, now)
                              IN IF ~validateIfMatchHeader(ifMatch, etag)
                                 THEN resp' = PreconditionFailedError(headers)
                                 ELSE IF ~validateIfNoneMatchHeader("GET", ifNoneMatch, etag)
                                 THEN resp' = [headers EXCEPT !.status = 304]
                                 ELSE resp' = [headers EXCEPT
                                                  !.status = 200, !.body = "chassis",
                                                  !.etag = QuotedETag(etag)]
    /\ UNCHANGED <<now, hw, captured, rng>>

----------------------------------------------------------------------------
(* Chassis collection *)

\* handleChassisServiceError: the classes of a failed Get.
handleChassisServiceError(r, errorStr) ==
    IF isUpstreamServiceError(errorStr) THEN BadGatewayError(r)
    ELSE IF isRateLimitError(errorStr) THEN ServiceTemporarilyUnavailableError(r)
    ELSE GeneralError(r)

buildChassisMembers(items) == CollectionMembers(items, "/redfish/v1/Chassis/")

RECURSIVE JoinMembers(_)
JoinMembers(members) ==
    IF members = <<>> THEN ""
    ELSE Head(members) \o JoinMembers(Tail(members))

\* The digest of the hour stamp and the member ids, as for the instance.
generateChassisCollectionETag(members, hour) ==
    IF Len(members) = 0 THEN "empty-collection"
    ELSE "sha256(" \o HourStamp(hour) \o JoinMembers(members) \o ")"

\* Conditional headers for the collection: none, any, a stale value, and
\* the ETag of the empty collection with and without quotes.
CollectionConditionalHeaders ==
    {"", "*", "\"0123456789abcdef\"", "\"empty-collection\"", "empty-collection"}

getChassisCollectionHandler ==
    /\ req = NoReq
    /\ Route("GET", ChassisCollectionRoute).handler = "getChassisCollectionHandler"
    /\ \E accept \in AcceptHeaders, ifMatch \in CollectionConditionalHeaders,
          ifNoneMatch \in CollectionConditionalHeaders :
         LET headers == SetRedfishHeaders(NoResp)
         IN /\ req' = [NoReq EXCEPT !.method = "GET", !.route = ChassisCollectionRoute,
                                    !.accept = accept, !.ifMatch = ifMatch,
                                    !.ifNoneMatch = ifNoneMatch]
            /\ IF ~isAcceptHeaderValid(accept)
               THEN resp' = NotAcceptableError(headers, accept) /\ calls' = <<>>
               ELSE \E ans \in GetAnswers :
                      /\ calls' = <<[Call("Get", "", 0, ans.err, 0)
                                        EXCEPT !.items = ans.items]>>
                      /\ IF ans.err # NoErr
                         THEN resp' = handleChassisServiceError(headers, ans.err)
                         ELSE LET members == buildChassisMembers(ans.items)
                                  etag == generateChassisCollectionETag(members, now)
                              IN IF ~validateIfMatchHeader(ifMatch, etag)
                                 THEN resp' = PreconditionFailedError(headers)
                                 ELSE IF ~validateIfNoneMatchHeader("GET", ifNoneMatch, etag)
                                 THEN resp' = [headers EXCEPT !.status = 304]
                                 ELSE resp' = [headers EXCEPT
                                                  !.status = 200, !.body = "collection",
                                                  !.members = members,
                                                  !.etag = QuotedETag(etag)]
    /\ UNCHANGED <<now, hw, captured, rng>>

----------------------------------------------------------------------------
(* Chassis PATCH *)

isContentTypeValid_AcceptsAll(contentType) == TRUE

\* isContentTypeValid: TRUE when the Content-Type header is acceptable.
isContentTypeValid(contentType) ==
    ~(contentType # "" /\ contentType # contentTypeJSON
        /\ ~HasPrefix(contentType, contentTypeJSON))

\* isRequestSizeValid: TRUE when the declared length is within the cap.
isRequestSizeValid(contentLength) == ~(contentLength > maxRequestSize)

readOnlyProperties ==
    <<"Id", "Name", "@odata.context", "@odata.id", "@odata.type", "@odata.etag",
      "ChassisType", "Manufacturer", "Model", "SKU", "SerialNumber", "PartNumber",
      "Status", "Links", "PowerState">>

\* The JSON object a PATCH carries, or an unparseable body.
Property(key) == Member(key, "string", "value")

PatchBodies ==
    {[ok |-> FALSE, members |-> <<>>], [ok |-> TRUE, members |-> <<>>],
     [ok |-> TRUE, members |-> <<Property("AssetTag")>>],
     [ok |-> TRUE, members |-> <<Property("Name")>>],
     [ok |-> TRUE, members |-> <<Property("name")>>],
     [ok |-> TRUE, members |-> <<Property("@odata.etag")>>],
     [ok |-> TRUE, members |-> <<Property("AssetTag"), Property("SerialNumber")>>],
     [ok |-> TRUE, members |-> <<Property("PowerState"), Property("Id")>>]}

\* The keys of the map the body is bound to.
BodyKeys(members) == {members[i].key : i \in DOMAIN members}

\* The loop over readOnlyProperties: the first one the body holds, or "".
firstReadOnly_None(keys) == ""

firstReadOnly(keys) ==
    IF \E i \in DOMAIN readOnlyProperties : readOnlyProperties[i] \in keys
    THEN readOnlyProperties[CHOOSE i \in DOMAIN readOnlyProperties :
             /\ readOnlyProperties[i] \in keys
             /\ \A j \in 1..(i - 1) : readOnlyProperties[j] \notin keys]
    ELSE ""

patchChassisInstanceHandler ==
    /\ req = NoReq
    /\ Route("PATCH", ChassisRoute).handler = "patchChassisInstanceHandler"
    /\ \E id \in Ids, h \in RequestHeaders, b \in PatchBodies,
          ifMatch \in {"", "\"0123456789abcdef\""} :
         LET headers == SetRedfishHeaders(NoResp)
         IN /\ req' = WithHeaders([NoReq EXCEPT !.method = "PATCH", !.route = ChassisRoute,
                                                !.id = id, !.bodyOK = b.ok,
                                                !.body = b.members, !.ifMatch = ifMatch], h)
            /\ IF ~isAcceptHeaderValid(h.accept)
               THEN resp' = NotAcceptableError(headers, h.accept) /\ calls' = <<>>
               ELSE IF ~isContentTypeValid(h.contentType)
               THEN /\ resp' = UnsupportedMediaTypeError(headers, h.contentType)
                    /\ calls' = <<>>
               ELSE IF ~isRequestSizeValid(h.contentLength)
               THEN resp' = RequestEntityTooLargeError(headers) /\ calls' = <<>>
               ELSE IF id = ""
               THEN resp' = ResourceNotFoundError(headers) /\ calls' = <<>>
               ELSE \E err \in HardwareInfoAnswers :
                      /\ calls' = <<Call("GetHardwareInfo", id, 0, err, 0)>>
                      /\ resp' =
                            IF err # NoErr THEN ResourceNotFoundError(headers)
                            ELSE IF ~b.ok THEN MalformedJSONError(headers)
                            ELSE IF firstReadOnly(BodyKeys(b.members)) # ""
                            THEN [PropertyValueNotInListError(headers)
                                    EXCEPT !.messageArgs =
                                        <<firstReadOnly(BodyKeys(b.members))>>]
                            ELSE NotImplementedError(headers)
    /\ UNCHANGED <<now, hw, captured, rng>>

----------------------------------------------------------------------------
(* Service root, session service, metadata *)

\* The health and load checks of the service root all pass as written, so
\* the only rejection is the Accept check.
serviceRootHandler ==
    /\ req = NoReq
    /\ Route("GET", ServiceRootRoute).handler = "serviceRootHandler"
    /\ \E h \in RequestHeaders :
         LET headers == SetRedfishHeaders(NoResp)
         IN /\ req' = WithHeaders([NoReq EXCEPT !.method = "GET",
                                                !.route = ServiceRootRoute], h)
            /\ resp' = IF ~isAcceptHeaderValid(h.accept)
                       THEN NotAcceptableError(headers, h.accept)
                       ELSE [headers EXCEPT !.status = 200, !.body = "serviceRoot"]
            /\ calls' = <<>>
    /\ UNCHANGED <<now, hw, captured, rng>>

sessionServiceHandler ==
    /\ req = NoReq
    /\ Route("GET", SessionServiceRoute).handler = "sessionServiceHandler"
    /\ \E accept \in AcceptHeaders :
         /\ req' = [NoReq EXCEPT !.method = "GET", !.route = SessionServiceRoute,
                                 !.accept = accept]
         /\ resp' = [SetRedfishHeaders(NoResp) EXCEPT
                        !.status = 200, !.body = "sessionService"]
         /\ calls' = <<>>
    /\ UNCHANGED <<now, hw, captured, rng>>

sessionsCollectionHandler ==
    /\ req = NoReq
    /\ Route("GET", SessionsRoute).handler = "sessionsCollectionHandler"
    /\ \E accept \in AcceptHeaders :
         /\ req' = [NoReq EXCEPT !.method = "GET", !.route = SessionsRoute,
                                 !.accept = accept]
         /\ resp' = [SetRedfishHeaders(NoResp) EXCEPT
                        !.status = 200, !.body = "collection"]
         /\ calls' = <<>>
    /\ UNCHANGED <<now, hw, captured, rng>>

\* The OData service document: XML, written without the Redfish headers.
metadataHandler ==
    /\ req = NoReq
    /\ Route("GET", MetadataRoute).handler = "metadataHandler"
    /\ req' = [NoReq EXCEPT !.method = "GET", !.route = MetadataRoute]
    /\ resp' = [NoResp EXCEPT !.status = 200, !.body = "xml"]
    /\ calls' = <<>>
    /\ UNCHANGED <<now, hw, captured, rng>>

----------------------------------------------------------------------------
(* Firmware inventory *)

biosID == "BIOS"

\* The version struct GetVersion returns: a string per firmware component.
Version(amt, flash) ==
    [kind |-> "struct", AMT |-> amt, Flash |-> flash, Netstack |-> "",
     AMTApps |-> ""]

VersionAnswers ==
    [err : {NoErr}, info : {Version("15.0.25", ""), Version("15.0.25", "15.0.25"),
                            Version("", ""),
                            [Version("", "15.0.25") EXCEPT !.Netstack = "15.0.25",
                                                           !.AMTApps = "15.0.25"]}]
        \cup [err : {"device not found", "context canceled"}, info : {Version("", "")}]

getStringField(v, fieldName) ==
    IF v.kind = "struct" /\ fieldName \in DOMAIN v THEN v[fieldName] ELSE ""

FirmwareComponents == <<"AMT", "Flash", "Netstack", "AMTApps">>

\* addFirmwareMembers: one member per component with a version, in order.
RECURSIVE addFirmwareMembers(_, _, _)
addFirmwareMembers(systemID, versionInfo, i) ==
    IF i > Len(FirmwareComponents) THEN <<>>
    ELSE (IF getStringField(versionInfo, FirmwareComponents[i]) # ""
          THEN <<"/redfish/v1/Systems/" \o systemID \o "/FirmwareInventory/"
                    \o FirmwareComponents[i]>>
          ELSE <<>>) \o addFirmwareMembers(systemID, versionInfo, i + 1)

GetVersion_ByPowerAction(id, v) ==
    [Call("SendPowerAction", id, 0, v.err, 0) EXCEPT
        !.items = [i \in DOMAIN FirmwareComponents |->
                      getStringField(v.info, FirmwareComponents[i])]]

\* The backend's GetVersion call, with the component versions it answered.
GetVersion(id, v) ==
    [Call("GetVersion", id, 0, v.err, 0) EXCEPT
        !.items = [i \in DOMAIN FirmwareComponents |->
                      getStringField(v.info, FirmwareComponents[i])]]

buildFirmwareCollection_BIOSWithoutInfo(systemID, versionInfo, hwErr, hwInfo) ==
    addFirmwareMembers(systemID, versionInfo, 1)
        \o (IF hwErr = NoErr
            THEN <<"/redfish/v1/Systems/" \o systemID \o "/FirmwareInventory/"
                      \o biosID>>
            ELSE <<>>)

\* buildFirmwareCollection: the members for the version info, then the BIOS
\* member when GetHardwareInfo returned non-nil info without error.
buildFirmwareCollection(systemID, versionInfo, hwErr, hwInfo) ==
    addFirmwareMembers(systemID, versionInfo, 1)
        \o (IF hwErr = NoErr /\ hwInfo # Nil
            THEN <<"/redfish/v1/Systems/" \o systemID \o "/FirmwareInventory/"
                      \o biosID>>
            ELSE <<>>)

getFirmwareInventoryCollectionHandler ==
    /\ req = NoReq
    /\ Route("GET", FirmwareRoute).handler = "getFirmwareInventoryCollectionHandler"
    /\ \E id \in Ids, accept \in {"", "text/xml"}, v \in VersionAnswers :
         /\ req' = [NoReq EXCEPT !.method = "GET", !.route = FirmwareRoute,
                                 !.id = id, !.accept = accept]
         /\ IF v.err # NoErr
            THEN /\ calls' = <<GetVersion(id, v)>>
                 /\ resp' = ResourceNotFoundError(NoResp)
            ELSE \E hwErr \in HardwareInfoAnswers :
                   /\ calls' = <<GetVersion(id, v),
                                 Call("GetHardwareInfo", id, 0, hwErr, 0)>>
                   /\ resp' = [SetRedfishHeaders(NoResp) EXCEPT
                          !.status = 200, !.body = "collection",
                          !.etag = "W/\"firmware\"",
                          !.members =
                              buildFirmwareCollection(id, v.info, hwErr, hw[id])]
    /\ UNCHANGED <<now, hw, captured, rng>>

FirmwareIds == {"AMT", "Flash", "Netstack", "AMTApps", "BIOS", "Unknown"}

getFirmwareItem_FlashAlways(firmwareID, versionInfo, hwInfo) ==
    IF firmwareID = biosID THEN hwInfo # Nil
    ELSE IF firmwareID = "Flash" THEN TRUE
    ELSE IF \E i \in DOMAIN FirmwareComponents : FirmwareComponents[i] = firmwareID
    THEN getStringField(versionInfo, firmwareID) # ""
    ELSE FALSE

\* getFirmwareItem: TRUE when the item exists (the builder returns non-nil).
getFirmwareItem(firmwareID, versionInfo, hwInfo) ==
    IF firmwareID = biosID THEN hwInfo # Nil
    ELSE IF \E i \in DOMAIN FirmwareComponents : FirmwareComponents[i] = firmwareID
    THEN getStringField(versionInfo, firmwareID) # ""
    ELSE FALSE

getFirmwareInventoryInstanceHandler ==
    /\ req = NoReq
    /\ Route("GET", FirmwareItemRoute).handler = "getFirmwareInventoryInstanceHandler"
    /\ \E id \in Ids, firmwareID \in FirmwareIds, accept \in {"", "text/xml"},
          v \in VersionAnswers :
         LET found(hwInfo) ==
                 IF getFirmwareItem(firmwareID, v.info, hwInfo)
                 THEN [SetRedfishHeaders(NoResp) EXCEPT
                          !.status = 200, !.body = "firmware",
                          !.etag =
                              generateETag(
                                  firmwareID \o "-" \o id \o "-"
                                  \o (IF firmwareID = biosID
                                      THEN parseBIOSInfo(hwInfo, now).version
                                      ELSE getStringField(v.info, firmwareID)))]
                 ELSE ResourceNotFoundError(NoResp)
         IN /\ req' = [NoReq EXCEPT !.method = "GET", !.route = FirmwareItemRoute,
                                    !.id = id, !.item = firmwareID,
                                    !.accept = accept]
            /\ IF v.err # NoErr
               THEN /\ calls' = <<GetVersion(id, v)>>
                    /\ resp' = ResourceNotFoundError(NoResp)
               ELSE IF firmwareID # biosID
               THEN /\ calls' = <<GetVersion(id, v)>>
                    /\ resp' = found(Nil)
               ELSE \E hwErr \in HardwareInfoAnswers :
                      /\ calls' = <<GetVersion(id, v),
                                    Call("GetHardwareInfo", id, 0, hwErr, 0)>>
                      /\ resp' = IF hwErr # NoErr THEN ResourceNotFoundError(NoResp)
                                 ELSE found(hw[id])
    /\ UNCHANGED <<now, hw, captured, rng>>

----------------------------------------------------------------------------
(* Time passes; the backend's hardware info changes *)

Tick ==
    /\ req = NoReq
    /\ now < MaxHour
    /\ now' = now + 1
    /\ UNCHANGED <<req, resp, calls, hw, captured, rng>>

HardwareChange ==
    /\ req = NoReq
    /\ \E id \in Ids, info \in HwInfos :
         /\ hw[id] # info
         /\ hw' = [hw EXCEPT ![id] = info]
    /\ UNCHANGED <<req, resp, calls, now, captured, rng>>

NoCapture == [id |-> "", etag |-> "", hwAt |-> Nil, hour |-> 0]

\* The client keeps the ETag of a 200 Chassis response for later use.
ClientCapture ==
    /\ req.route = ChassisRoute /\ resp.status = 200 /\ resp.etag # ""
    /\ captured' = [id |-> req.id, etag |-> resp.etag, hwAt |-> hw[req.id],
                    hour |-> now]
    /\ req' = NoReq /\ resp' = NoResp /\ calls' = <<>>
    /\ UNCHANGED <<now, hw, rng>>

----------------------------------------------------------------------------
(* The client reads the response and turns to its next request *)

ClientNext ==
    /\ req # NoReq
    /\ req' = NoReq /\ resp' = NoResp /\ calls' = <<>>
    /\ UNCHANGED <<now, hw, captured, rng>>

Init ==
    /\ req = NoReq /\ resp = NoResp /\ calls = <<>>
    /\ now = 0 /\ hw = [id \in Ids |-> Nil] /\ captured = NoCapture
    /\ rng = 0

Next ==
    \/ postSystemResetHandler
    \/ getSystemInstanceHandler
    \/ httpMethodNotAllowedHandler
    \/ methodNotAllowedHandler
    \/ noRoute
    \/ ClientNext

Spec == Init /\ [][Next]_vars

\* The Chassis instance resource over time: requests, the clock, the backend.
NextChassis ==
    \/ getChassisInstanceHandler
    \/ ClientNext
    \/ ClientCapture
    \/ Tick
    \/ HardwareChange

SpecChassis == Init /\ [][NextChassis]_vars

\* Extraction over hardware info payloads of every shape, at two dates.
InitExtract ==
    /\ req = NoReq /\ resp = NoResp /\ calls = <<>> /\ captured = NoCapture
    /\ rng = 0
    /\ now \in {0, 24}
    /\ \E p \in Payloads : hw = [id \in Ids |-> p]

NextExtract ==
    \/ getChassisInstanceHandler
    \/ getFirmwareInventoryInstanceHandler
    \/ ClientNext

SpecExtract == InitExtract /\ [][NextExtract]_vars

\* The firmware inventory of a system whose hardware info changes.
NextFirmware ==
    \/ getFirmwareInventoryCollectionHandler
    \/ getFirmwareInventoryInstanceHandler
    \/ HardwareChange
    \/ ClientNext

SpecFirmware == Init /\ [][NextFirmware]_vars

\* Every endpoint of the layer, over request headers and backend answers.
NextHTTP ==
    \/ serviceRootHandler
    \/ sessionServiceHandler
    \/ sessionsCollectionHandler
    \/ metadataHandler
    \/ getSystemsCollectionHandler
    \/ getSystemInstanceHandler
    \/ postSystemResetWithHeaders
    \/ getFirmwareInventoryCollectionHandler
    \/ getFirmwareInventoryInstanceHandler
    \/ getChassisCollectionHandler
    \/ getChassisInstanceHandler
    \/ patchChassisInstanceHandler
    \/ httpMethodNotAllowedHandler
    \/ methodNotAllowedHandler
    \/ noRoute
    \/ ClientNext
    \/ ClientCapture

SpecHTTP == Init /\ [][NextHTTP]_vars

----------------------------------------------------------------------------
(* Properties of the Reset action and of the Systems instance *)

IsReset == req.method = "POST" /\ req.route = ResetRoute

\* What the handler decoded from the body of req.
Decoded == ShouldBindJSON([ok |-> req.bodyOK, members |-> req.body])

PowerActionCalls == {i \in DOMAIN calls : calls[i].op = "SendPowerAction"}

\* The power-state query of req succeeded and reported one of codes.
PowerStateReported(codes) ==
    /\ calls # <<>>
    /\ calls[1].op = "GetPowerState"
    /\ calls[1].err = NoErr
    /\ calls[1].val \in codes

\* C1: a Reset with ResetType=On whose power-state query succeeds and
\* reports on, sleep or standby (2, 3, 4) is answered 409 and SendPowerAction
\* is not invoked.
C1_OnWhileOnIsConflict ==
    (IsReset /\ ~Decoded.err /\ Decoded.ResetType = "On"
        /\ PowerStateReported({2, 3, 4}))
    => (resp.status = 409 /\ PowerActionCalls = {})

C3_OffWhileOffIsConflict ==
    (IsReset /\ ~Decoded.err /\ Decoded.ResetType = "ForceOff"
        /\ PowerStateReported({7, 8}))
    => (resp.status = 409 /\ resp.code = BaseOperationNotAllowedID
          /\ PowerActionCalls = {})

C3_Witness ==
    /\ IsReset /\ Decoded.ResetType = "ForceOff" /\ PowerStateReported({7})
    /\ resp.status = 409

\* C4: when SendPowerAction returns without error the answer is 200 with a
\* Task that is Completed/OK exactly when the return code is zero and
\* Exception/Critical with the general-error message when it is not; no
\* response carries a Completed/OK Task on any other path.
C4_TaskReflectsReturnValue ==
    /\ \A i \in PowerActionCalls :
         calls[i].err = NoErr =>
            /\ resp.status = 200 /\ resp.body = "task"
            /\ (calls[i].val = 0 <=>
                  (resp.TaskState = "Completed" /\ resp.TaskStatus = "OK"))
            /\ (calls[i].val # 0 =>
                  /\ resp.TaskState = "Exception" /\ resp.TaskStatus = "Critical"
                  /\ resp.MessageId = "Base.1.11.0.GeneralError")
    /\ (resp.TaskState = "Completed" \/ resp.TaskStatus = "OK") =>
          \E i \in PowerActionCalls : calls[i].err = NoErr /\ calls[i].val = 0

C4_Witness ==
    /\ IsReset /\ resp.status = 200 /\ resp.TaskState = "Exception"
    /\ \E i \in PowerActionCalls : calls[i].err = NoErr /\ calls[i].val # 0

\* The action code the specification fixes for each ResetType.
C6_ActionCode ==
    [On |-> 2, ForceOff |-> 8, ForceRestart |-> 10, PowerCycle |-> 5]

C7_NotFound(text) ==
    Contains(ToLower(text), "not found") \/ Contains(text, "DevicesUseCase")

C7_Overload(text) ==
    \E p \in {"too many connections", "connection pool exhausted",
              "database pool full", "service overloaded", "maintenance mode",
              "rate limit exceeded", "too many requests", "resource exhausted",
              "service unavailable", "temporarily unavailable",
              "max connections reached", "server overloaded",
              "capacity exceeded", "throttled", "circuit breaker"} :
        Contains(ToLower(text), p)

C7_Upstream(text) ==
    \E p \in {"connection refused", "connection timeout", "timeout",
              "network unreachable", "no route to host", "connection reset",
              "wsman", "amt", "unauthorized", "certificate", "ssl", "tls",
              "dial tcp", "i/o timeout", "connection aborted",
              "host unreachable"} :
        Contains(ToLower(text), p)

\* The status in the order the specification lists the classes.
C7_StatusAsListed(text) ==
    IF C7_Upstream(text) THEN 502
    ELSE IF C7_Overload(text) THEN 503
    ELSE IF C7_NotFound(text) THEN 404
    ELSE 500

\* The status in the order the handler tests the classes.
C7_StatusNotFoundFirst(text) ==
    IF C7_NotFound(text) THEN 404
    ELSE IF C7_Overload(text) THEN 503
    ELSE IF C7_Upstream(text) THEN 502
    ELSE 500

\* C5: a Reset with a valid ResetType whose power-state query fails is never
\* answered 409: SendPowerAction is invoked with the mapped action code and
\* the answer follows from SendPowerAction's result alone.
C5_PowerStateFailureFailsOpen ==
    (IsReset /\ calls # <<>> /\ calls[1].op = "GetPowerState"
        /\ calls[1].err # NoErr)
    => /\ resp.status # 409
       /\ Len(calls) = 2
       /\ calls[2].op = "SendPowerAction"
       /\ calls[2].id = req.id
       /\ calls[2].action = C6_ActionCode[Decoded.ResetType]
       /\ resp.status = IF calls[2].err = NoErr THEN 200
                        ELSE C7_StatusNotFoundFirst(calls[2].err)

C5_Witness ==
    /\ IsReset /\ Len(calls) = 2 /\ calls[1].err # NoErr
    /\ calls[2].op = "SendPowerAction" /\ calls[2].err = NoErr
    /\ resp.status = 200

\* C6: every SendPowerAction a Reset makes carries the system id of the
\* request path and the action code fixed for the requested ResetType
\* (On 2, ForceOff 8, ForceRestart 10, PowerCycle 5); the four codes are
\* pairwise distinct and no other code is sent.
C6_ActionCodeFollowsResetType ==
    /\ \A i \in PowerActionCalls :
         /\ IsReset
         /\ calls[i].id = req.id
         /\ Decoded.ResetType \in DOMAIN C6_ActionCode
         /\ calls[i].action = C6_ActionCode[Decoded.ResetType]
         /\ calls[i].action \in {2, 5, 8, 10}
    /\ Cardinality({ResetAction(t) : t \in ResetTypes}) = 4

C6_Witness ==
    /\ IsReset /\ Decoded.ResetType = "ForceRestart"
    /\ \E i \in PowerActionCalls : calls[i].action = 10 /\ calls[i].id = "device-2"

\* C7 as stated: when SendPowerAction fails, the status follows from the
\* error text in the order 502 (upstream communication), then 503
\* (overload or maintenance), then 404 (resource not found), then 500.
C7_StatusInListedOrder ==
    \A i \in PowerActionCalls :
        calls[i].err # NoErr => resp.status = C7_StatusAsListed(calls[i].err)

\* C7 as the handler decides it: when SendPowerAction fails, the status
\* follows from the error text alone, 404 if it contains "not found" in any
\* case or "DevicesUseCase", otherwise 503 on an overload or maintenance
\* pattern, otherwise 502 on an upstream-communication pattern, otherwise 500.
C7_StatusNotFoundThenOverloadThenUpstream ==
    \A i \in PowerActionCalls :
        calls[i].err # NoErr =>
            /\ resp.status = C7_StatusNotFoundFirst(calls[i].err)
            /\ resp.body = "error"

C7_Witness ==
    /\ IsReset /\ resp.status = 404
    /\ \E i \in PowerActionCalls : calls[i].err = "timeout: device not found"

\* C8: for every power code GetPowerState returns, GET Systems/{id} answers
\* 200 with PowerState On for 2, 3, 4, Off for 7, 8 and Unknown for every
\* other integer; it never answers with an error.
C8_PowerStateMappingTotal ==
    (req.method = "GET" /\ req.route = SystemRoute /\ calls[1].err = NoErr)
    => /\ resp.status = 200 /\ resp.body = "system"
       /\ resp.PowerState = IF calls[1].val \in {2, 3, 4} THEN "On"
                            ELSE IF calls[1].val \in {7, 8} THEN "Off"
                            ELSE "Unknown"

C8_Witness ==
    /\ req.method = "GET" /\ req.route = SystemRoute
    /\ calls[1].err = NoErr /\ calls[1].val = 4 /\ resp.PowerState = "On"

----------------------------------------------------------------------------
(* Properties of the Chassis instance and of method dispatch *)

\* The request is a plain conditional GET of the chassis whose ETag the
\* client captured, the backend answers it, and the hardware info is what
\* it was when the ETag was captured.
C9_ConditionalGetOfCaptured ==
    /\ req.method = "GET" /\ req.route = ChassisRoute
    /\ captured.etag # "" /\ req.id = captured.id
    /\ req.ifNoneMatch = captured.etag /\ req.ifMatch = ""
    /\ req.accept \in {"", "application/json"}
    /\ calls # <<>> /\ calls[1].err = NoErr
    /\ hw[req.id] = captured.hwAt

\* C9 as stated: with unchanged hardware info, a GET that returned 200 with
\* ETag E followed at any later time by a GET with If-None-Match E yields 304
\* with an empty body.
C9_NotModifiedAtAnyLaterTime ==
    C9_ConditionalGetOfCaptured => (resp.status = 304 /\ resp.body = "none")

\* C9 as the handler decides it: the second GET yields 304 with an empty body
\* when it is made within the wall-clock hour in which E was returned.
C9_NotModifiedWithinTheSameHour ==
    (C9_ConditionalGetOfCaptured /\ now = captured.hour)
    => (resp.status = 304 /\ resp.body = "none" /\ resp.etag = "")

C9_Witness ==
    /\ C9_ConditionalGetOfCaptured /\ now = captured.hour /\ now > 0
    /\ captured.hwAt # Nil /\ resp.status = 304

\* The methods each path of the interface supports.
C10_Supported ==
    [r \in {ServiceRootRoute, SessionServiceRoute, SystemsRoute, SystemRoute,
            ChassisCollectionRoute, FirmwareRoute, FirmwareItemRoute}
        |-> {"GET"}]
        @@ (SessionsRoute :> {"GET", "POST"})
        @@ (ChassisRoute :> {"GET", "PATCH"}) @@ (ResetRoute :> {"POST"})

\* C10: on every collection, instance and action path, every method among
\* GET, POST, PUT, PATCH, DELETE the path does not support is answered 405
\* with an Allow header and a Redfish error body, without a backend call.
C10_UnsupportedMethodIs405 ==
    (req.route \in DOMAIN C10_Supported /\ req.method \in Methods
        /\ req.method \notin C10_Supported[req.route])
    => /\ resp.status = 405
       /\ resp.allow # ""
       /\ resp.body = "error" /\ resp.extendedInfo >= 1
       /\ calls = <<>>

----------------------------------------------------------------------------
(* Properties of headers, error classes and collections on every endpoint *)

\* The endpoints that answer with a Redfish resource or action result.
ResourceRoutes ==
    {ServiceRootRoute, SessionServiceRoute, SessionsRoute, SystemsRoute,
     SystemRoute, ResetRoute, ChassisCollectionRoute, ChassisRoute,
     FirmwareRoute, FirmwareItemRoute}

\* C11: every 2xx response of the service root, the session service, the
\* sessions, the Systems collection and instance, the Reset action, the
\* Chassis collection and instance and the firmware inventory collection and
\* instance carries the header OData-Version: 4.0.
C11_SuccessCarriesODataVersion ==
    (req.route \in ResourceRoutes /\ resp.status \in 200..299)
    => resp.odataVersion = "4.0"

\* A backend call of the request failed with the error of a cancelled
\* context (context.Canceled).
ContextCancelled ==
    \E i \in DOMAIN calls : calls[i].err = "context canceled"

\* C12: when a backend call fails because the context of the request was
\* cancelled, the handler answers with a status of the 5xx class, never 2xx
\* and never 4xx.
C12_CancelledContextIsServerError ==
    ContextCancelled => resp.status \in 500..599

\* A GET of the Chassis collection or of a Chassis instance whose backend
\* call failed.
ChassisGetFailed ==
    /\ req.method = "GET"
    /\ req.route \in {ChassisCollectionRoute, ChassisRoute}
    /\ calls # <<>> /\ calls[1].err # NoErr

\* C13: on GET of the Chassis collection or of an instance, a backend error
\* whose text matches none of the not-found, upstream or overload patterns
\* yields 500, and 404 is answered only for errors that indicate that the
\* resource was not found.
C13_UncategorizedChassisErrorIs500 ==
    ChassisGetFailed =>
        /\ (~isResourceNotFoundError(calls[1].err)
              /\ ~isUpstreamServiceError(calls[1].err)
              /\ ~isRateLimitError(calls[1].err)) => resp.status = 500
        /\ resp.status = 404 => isResourceNotFoundError(calls[1].err)

\* The request reached a handler that builds a resource or runs an action
\* (not a 405 handler, and not the router's own answer).
Handled ==
    /\ req # NoReq
    /\ Route(req.method, req.route).handler
          \notin {"", "HTTPMethodNotAllowedError", "MethodNotAllowedError"}

\* The members the collection of path holds for the devices Get returned.
C14_Expected(items, path) ==
    LET withGUID == SelectSeq(items, LAMBDA g : g # "")
    IN [i \in 1..Len(withGUID) |-> path \o "/" \o withGUID[i]]

\* C14: for every device list the backend returns, the Systems and the
\* Chassis collection hold exactly one member per device with a non-empty
\* GUID, in backend order, with @odata.id = collection path/GUID, and no
\* member for a device whose GUID is empty.
C14_MembersAreDevicesWithGUID ==
    (req.method = "GET" /\ req.route \in {SystemsRoute, ChassisCollectionRoute}
        /\ resp.status = 200)
    => /\ calls[1].op = "Get"
       /\ resp.members =
            C14_Expected(calls[1].items,
                         IF req.route = SystemsRoute THEN "/redfish/v1/Systems"
                         ELSE "/redfish/v1/Chassis")
       /\ \A i \in DOMAIN resp.members :
            resp.members[i] \notin {"/redfish/v1/Systems/", "/redfish/v1/Chassis/"}

C14_Witness ==
    /\ req.route = ChassisCollectionRoute /\ resp.status = 200
    /\ calls[1].items = <<"device-2", "", "device-1">>
    /\ resp.members = <<"/redfish/v1/Chassis/device-2", "/redfish/v1/Chassis/device-1">>

\* An Accept header that is non-empty and holds neither */* nor
\* application/json.
C15_Unacceptable(accept) ==
    accept # "" /\ ~Contains(accept, "*/*") /\ ~Contains(accept, "application/json")

\* C15: on the service root, Systems, Chassis, firmware inventory and Reset
\* endpoints a request with an unacceptable Accept header is answered 406
\* with the value echoed in the error body, and a request with an absent,
\* empty or acceptable Accept header is never answered 406.
C15_UnacceptableAcceptIs406 ==
    (Handled /\ req.route \in {ServiceRootRoute, SystemsRoute, SystemRoute,
                               ChassisCollectionRoute, ChassisRoute, FirmwareRoute,
                               FirmwareItemRoute, ResetRoute})
    => IF C15_Unacceptable(req.accept)
       THEN resp.status = 406 /\ resp.body = "error"
              /\ resp.messageArgs = <<req.accept>>
       ELSE resp.status # 406

\* A Content-Type header that is non-empty and does not start with
\* application/json.
C16_Unsupported(contentType) ==
    contentType # "" /\ ~HasPrefix(contentType, "application/json")

\* A request other than GET or HEAD that reached its handler with an
\* acceptable Accept header.
NonGetHandled ==
    /\ Handled /\ req.method \notin {"GET", "HEAD"}
    /\ req.route \in {ChassisRoute, ResetRoute}
    /\ ~C15_Unacceptable(req.accept)

\* C16: a Chassis PATCH or a Reset POST whose Content-Type is non-empty and
\* does not start with application/json is rejected with 415, and one with
\* an absent Content-Type or one starting with application/json is never
\* answered 415.
C16_UnsupportedContentTypeIs415 ==
    NonGetHandled
    => IF C16_Unsupported(req.contentType) THEN resp.status = 415
       ELSE resp.status # 415

\* C17: a Chassis PATCH or a Reset POST whose body is larger than 1 MiB is
\* rejected with 413 before the body is parsed and before any backend call,
\* and one whose body is at most 1 MiB is never answered 413.
C17_OversizedBodyIs413 ==
    (NonGetHandled /\ ~C16_Unsupported(req.contentType))
    => IF req.bodySize > 1048576 THEN resp.status = 413 /\ calls = <<>>
       ELSE resp.status # 413

\* The ETag the resource of req has now.
CurrentChassisETag ==
    IF req.route = ChassisRoute
    THEN generateChassisInstanceETag(parseChassisInfo(hw[req.id]), now)
    ELSE generateChassisCollectionETag(buildChassisMembers(calls[1].items), now)

\* A Chassis collection or instance request that passed the header checks
\* and whose backend lookup succeeded, so that the resource has an ETag.
C18_ChassisRequestWithETag ==
    /\ Handled /\ req.route \in {ChassisCollectionRoute, ChassisRoute}
    /\ ~C15_Unacceptable(req.accept) /\ ~C16_Unsupported(req.contentType)
    /\ req.contentLength <= 1048576
    /\ calls # <<>> /\ calls[1].err = NoErr

\* C18: on Chassis collection and instance requests a non-empty If-Match
\* that, without its surrounding double quotes, is neither * nor the current
\* ETag of the resource yields 412 and no representation; an If-Match equal
\* to the current ETag (modulo quotes) or * never yields 412.
C18_IfMatchMismatchIs412 ==
    (C18_ChassisRequestWithETag /\ req.ifMatch # "")
    => IF Trim(req.ifMatch, "\"") \notin {"*", CurrentChassisETag}
       THEN resp.status = 412 /\ resp.body = "error"
       ELSE resp.status # 412

\* C19: a PATCH of an existing chassis with a well-formed JSON object body is
\* answered 400 property-value-not-in-list when the body holds a key of the
\* read-only list and 501 otherwise; no PATCH is ever answered 2xx.
C19_PatchIsRejected ==
    /\ (req.method = "PATCH" /\ req.route = ChassisRoute
          /\ calls # <<>> /\ calls[1].err = NoErr /\ req.bodyOK)
       => IF BodyKeys(req.body) \cap
               {"Id", "Name", "@odata.context", "@odata.id", "@odata.type",
                "@odata.etag", "ChassisType", "Manufacturer", "Model", "SKU",
                "SerialNumber", "PartNumber", "Status", "Links", "PowerState"} # {}
          THEN resp.status = 400 /\ resp.code = "Base.1.11.0.PropertyValueNotInList"
          ELSE resp.status = 501
    /\ req.method = "PATCH" => resp.status \notin 200..299

C19_Witness ==
    /\ req.method = "PATCH" /\ req.route = ChassisRoute
    /\ calls # <<>> /\ calls[1].err = NoErr
    /\ BodyKeys(req.body) = {"PowerState", "Id"}
    /\ resp.status = 400 /\ resp.messageArgs = <<"Id">>

CallsOf(op) == Cardinality({i \in DOMAIN calls : calls[i].op = op})

BackendOperations ==
    {"Get", "GetPowerState", "SendPowerAction", "GetHardwareInfo", "GetVersion"}

\* C21: while one request is handled, each backend operation is invoked at
\* most once whatever its result; a failed call is never issued again.
C21_EachBackendOperationAtMostOnce ==
    /\ \A op \in BackendOperations : CallsOf(op) <= 1
    /\ \A i \in DOMAIN calls : calls[i].op \in BackendOperations

C21_Witness ==
    /\ req.route = ResetRoute /\ Len(calls) = 2
    /\ calls[2].op = "SendPowerAction" /\ calls[2].err # NoErr
    /\ resp.status \in 500..599

\* The path of the item firmwareID of system id.
FirmwareItemPath(id, firmwareID) ==
    "/redfish/v1/Systems/" \o id \o "/FirmwareInventory/" \o firmwareID

Listed(path) == \E i \in DOMAIN resp.members : resp.members[i] = path

\* C23: GET of the firmware inventory collection answers 404 exactly when
\* GetVersion fails; when GetVersion succeeds the answer is 200 whether or
\* not GetHardwareInfo fails, and the BIOS member is listed exactly when
\* GetHardwareInfo returned non-nil info without error.
C23_FirmwareCollectionOutcome ==
    (req.method = "GET" /\ req.route = FirmwareRoute)
    => /\ calls[1].op = "GetVersion"
       /\ resp.status = 404 <=> calls[1].err # NoErr
       /\ calls[1].err = NoErr
          => /\ resp.status = 200
             /\ Len(calls) = 2 /\ calls[2].op = "GetHardwareInfo"
             /\ Listed(FirmwareItemPath(req.id, "BIOS"))
                  <=> (calls[2].err = NoErr /\ hw[req.id] # Nil)

C23_Witness ==
    /\ req.route = FirmwareRoute /\ resp.status = 200
    /\ calls[2].err = NoErr /\ hw[req.id] # Nil
    /\ resp.members = <<FirmwareItemPath(req.id, "AMT"), FirmwareItemPath(req.id, "BIOS")>>

\* The value at outer[key]["response"] of a payload, or Nil when the payload
\* has no such path.
ResponseOf(payload, key) ==
    IF /\ payload.kind = "map" /\ key \in DOMAIN payload.m
       /\ payload.m[key].kind = "map" /\ "response" \in DOMAIN payload.m[key].m
    THEN payload.m[key].m["response"]
    ELSE Nil

\* The value the response supplies under name: a key of a map, or a field
\* of a struct; Nil when there is none.
SuppliedValue(response, name) ==
    IF response.kind = "map" /\ name \in DOMAIN response.m THEN response.m[name]
    ELSE IF response.kind = "struct"
              /\ \E i \in DOMAIN response.f : response.f[i].name = name
    THEN response.f[CHOOSE i \in DOMAIN response.f : response.f[i].name = name].value
    ELSE Nil

ValidString(v) == v.kind = "string" /\ v.s # ""

\* The chassis item of a payload: the response, or the first element of a
\* response that is a list.
C24_ChassisItem(payload) ==
    LET response == ResponseOf(payload, "CIM_Chassis")
    IN IF response.kind # "list" THEN response
       ELSE IF response.l = <<>> THEN Nil ELSE response.l[1]

\* The chassis record is complete, and a field the payload does not supply
\* as a non-empty string of a map holds its sentinel.
C24_ChassisRecord(payload) ==
    LET info == parseChassisInfo(payload)
        item == C24_ChassisItem(payload)
        sentinel == [Manufacturer |-> "Unknown", Model |-> "Unknown",
                     SerialNumber |-> "", PartNumber |-> "", SKU |-> "",
                     AssetTag |-> ""]
        key == [Manufacturer |-> "Manufacturer", Model |-> "Model",
                SerialNumber |-> "SerialNumber", PartNumber |-> "PartNumber",
                SKU |-> "SKU", AssetTag |-> "Tag"]
    IN /\ DOMAIN info = {"Name", "Description", "ChassisType", "Manufacturer",
                         "Model", "SKU", "SerialNumber", "PartNumber", "AssetTag",
                         "PowerState"}
       /\ \A f \in DOMAIN sentinel :
            IF item.kind = "map" /\ ValidString(SuppliedValue(item, key[f]))
            THEN info[f] = SuppliedValue(item, key[f]).s
            ELSE info[f] = sentinel[f]
       /\ (item.kind # "map"
             \/ SuppliedValue(item, "PackageType").kind \notin {"string", "number"})
          => info.ChassisType = "Unknown"
       /\ info.ChassisType \in {"RackMount", "Desktop", "Unknown"}

\* The BIOS response supplies a release date: an RFC 3339 string under
\* DateTime of its ReleaseDate.
C24_ReleaseDateSupplied(response) ==
    LET dateTime == SuppliedValue(SuppliedValue(response, "ReleaseDate"), "DateTime")
    IN dateTime.kind = "string" /\ IsRFC3339(dateTime.s)

\* The BIOS record is complete; version and manufacturer not supplied as
\* non-empty strings hold their sentinels.
C24_BIOSRecord(payload, hour) ==
    LET info == parseBIOSInfo(payload, hour)
        response == ResponseOf(payload, "CIM_BIOSElement")
    IN /\ DOMAIN info = {"version", "versionString", "manufacturer", "releaseDate"}
       /\ IF ValidString(SuppliedValue(response, "Version"))
          THEN info.version = SuppliedValue(response, "Version").s
          ELSE info.version = "Unknown" /\ info.versionString = "Unknown"
       /\ IF ValidString(SuppliedValue(response, "Manufacturer"))
          THEN info.manufacturer = SuppliedValue(response, "Manufacturer").s
          ELSE info.manufacturer = "System Manufacturer"
       /\ C24_ReleaseDateSupplied(response)
          => info.releaseDate =
               SubSeq(SuppliedValue(SuppliedValue(response, "ReleaseDate"),
                                    "DateTime").s, 1, 10)

\* A request whose handler fetched the hardware info and extracted from it.
C24_Extracted ==
    /\ req.method = "GET" /\ calls # <<>>
    /\ calls[Len(calls)].op = "GetHardwareInfo" /\ calls[Len(calls)].err = NoErr
    /\ \/ req.route = ChassisRoute
       \/ req.route = FirmwareItemRoute /\ req.item = "BIOS" /\ hw[req.id] # Nil

\* C24 as stated: for every hardware info payload the chassis and the BIOS
\* extraction return a complete record in which every field not validly
\* supplied holds a fixed sentinel, the same whenever the extraction runs,
\* and the fetched payload never becomes a 5xx.
C24_UnsuppliedFieldsHoldFixedSentinels ==
    C24_Extracted
    => /\ resp.status \notin 500..599
       /\ C24_ChassisRecord(hw[req.id])
       /\ C24_BIOSRecord(hw[req.id], now)
       /\ ~C24_ReleaseDateSupplied(ResponseOf(hw[req.id], "CIM_BIOSElement"))
          => \A hour \in {0, 24} :
               parseBIOSInfo(hw[req.id], hour).releaseDate
                 = parseBIOSInfo(hw[req.id], now).releaseDate

\* C24, amended: as above, except that a release date not validly supplied
\* holds the current UTC date instead of a fixed value.
C24_UnsuppliedFieldsHoldDefaults ==
    C24_Extracted
    => /\ resp.status \notin 500..599
       /\ C24_ChassisRecord(hw[req.id])
       /\ C24_BIOSRecord(hw[req.id], now)
       /\ ~C24_ReleaseDateSupplied(ResponseOf(hw[req.id], "CIM_BIOSElement"))
          => parseBIOSInfo(hw[req.id], now).releaseDate = DateStamp(now)

C24_Witness ==
    /\ req.route = FirmwareItemRoute /\ req.item = "BIOS" /\ resp.status = 200
    /\ now = 24
    /\ ResponseOf(hw[req.id], "CIM_BIOSElement")
         = Map([Version |-> Str(""), Manufacturer |-> Num(3),
                ReleaseDate |-> Map([DateTime |-> Str("yesterday")])])
    /\ resp.etag = "W/\"sha256(BIOS-" \o req.id \o "-Unknown)\""
    /\ parseBIOSInfo(hw[req.id], now).releaseDate = "2025-11-05"

\* C22: requests are handled independently and statelessly: whatever
\* requests were handled before, no handler reads or writes in-process state
\* that another request can observe, so a Reset is answered with the Task it
\* gets when no request was handled before it, and the process-wide
\* generator is in its initial state whenever a request arrives.
C22_ResponseIndependentOfHistory ==
    /\ req = NoReq => rng = 0
    /\ (IsReset /\ resp.body = "task") => resp.Id = TaskID(0)

\* The body of the Reset request passed validation.
Validated ==
    /\ ~Decoded.err
    /\ Decoded.ResetType \in {"On", "ForceOff", "ForceRestart", "PowerCycle"}

\* GetPowerState is never invoked after SendPowerAction.
PowerStateBeforePowerAction ==
    \A i, j \in DOMAIN calls :
        (calls[i].op = "GetPowerState" /\ calls[j].op = "SendPowerAction") => i < j

\* C25 as stated: in handling one Reset, SendPowerAction is invoked exactly
\* once if validation succeeded and the conflict check did not reject, and
\* zero times otherwise; GetPowerState is invoked exactly once, before
\* SendPowerAction and never after it.
C25_PowerStateQueriedOnceForEveryReset ==
    IsReset
    => /\ CallsOf("SendPowerAction")
            = (IF Validated /\ resp.status # 409 THEN 1 ELSE 0)
       /\ CallsOf("GetPowerState") = 1
       /\ PowerStateBeforePowerAction

\* C25, amended: GetPowerState is invoked exactly once when validation
\* succeeded, as the first backend call, and not at all when it failed.
C25_PowerActionOnceAfterPowerState ==
    IsReset
    => /\ CallsOf("SendPowerAction")
            = (IF Validated /\ resp.status # 409 THEN 1 ELSE 0)
       /\ CallsOf("GetPowerState") = (IF Validated THEN 1 ELSE 0)
       /\ Validated => calls[1].op = "GetPowerState"
       /\ PowerStateBeforePowerAction
       /\ Len(calls) <= 2

C25_Witness ==
    /\ IsReset /\ Validated /\ Len(calls) = 2
    /\ calls[1].op = "GetPowerState" /\ calls[1].err # NoErr
    /\ calls[2].op = "SendPowerAction" /\ calls[2].err = NoErr
    /\ resp.status = 200

\* C26: every Reset ends in exactly one outcome, written as one response: a
\* 400 validation rejection, a 409 Conflict, a Failed error (404, 502, 503 or
\* 500) or a 200 Task that is Completed or Exception; Conflict and Failed
\* happen only after validation passed, and every error is reported in that
\* response.
C26_ResetHasOneOutcome ==
    IsReset
    => /\ resp.status \in {400, 409, 404, 502, 503, 500, 200}
       /\ resp.status = 400 <=> ~Validated
       /\ resp.status = 400 => resp.body = "error" /\ calls = <<>>
       /\ resp.status = 409
          => /\ resp.body = "error" /\ Len(calls) = 1
             /\ calls[1].op = "GetPowerState" /\ calls[1].err = NoErr
       /\ resp.status \in {404, 502, 503, 500}
          => /\ resp.body = "error" /\ Len(calls) = 2
             /\ calls[2].op = "SendPowerAction" /\ calls[2].err # NoErr
       /\ resp.status = 200
          => /\ resp.body = "task" /\ resp.TaskState \in {"Completed", "Exception"}
             /\ Len(calls) = 2 /\ calls[2].err = NoErr
       /\ (\E i \in DOMAIN calls : calls[i].op = "SendPowerAction" /\ calls[i].err # NoErr)
          => resp.status \in {404, 502, 503, 500}

C26_Witness ==
    /\ IsReset /\ Validated /\ resp.status = 503 /\ resp.body = "error"
    /\ calls[2].op = "SendPowerAction" /\ calls[2].err # NoErr

\* C27: the ETag of the Chassis collection and of a Chassis instance is a
\* function of the content and of the hour bucket only: the ETag served is the
\* one computed from the content served and the current hour, and the same
\* content in any other hour bucket has a different ETag, for the collection
\* (an empty one included) and for an instance.
C27_ETagFollowsContentAndHour ==
    /\ (Handled /\ req.route = ChassisCollectionRoute /\ resp.status = 200)
       => /\ resp.etag = QuotedETag(generateChassisCollectionETag(resp.members, now))
          /\ \A h \in 0..MaxHour :
               h # now => generateChassisCollectionETag(resp.members, h)
                            # generateChassisCollectionETag(resp.members, now)
    /\ (Handled /\ req.route = ChassisRoute /\ req.method = "GET" /\ resp.status = 200)
       => /\ resp.etag = QuotedETag(generateChassisInstanceETag(
                                        parseChassisInfo(hw[req.id]), now))
          /\ \A h \in 0..MaxHour :
               h # now => generateChassisInstanceETag(parseChassisInfo(hw[req.id]), h)
                            # generateChassisInstanceETag(parseChassisInfo(hw[req.id]), now)

\* The version info GetVersion answered in this request.
VersionAnswered ==
    [kind |-> "struct", AMT |-> calls[1].items[1], Flash |-> calls[1].items[2],
     Netstack |-> calls[1].items[3], AMTApps |-> calls[1].items[4]]

\* What GetHardwareInfo answered in this request; no error when the request
\* did not ask.
HardwareInfoErrAnswered == IF Len(calls) = 2 THEN calls[2].err ELSE NoErr

\* C28: under the same backend answers, a firmware item is listed in the
\* firmware inventory collection exactly when GET of that item's instance
\* answers 200.
C28_ListedIffInstanceFound ==
    /\ (req.method = "GET" /\ req.route = FirmwareRoute /\ resp.status = 200)
       => \A firmwareID \in FirmwareIds :
            Listed(FirmwareItemPath(req.id, firmwareID))
              <=> IF firmwareID = biosID
                  THEN /\ HardwareInfoErrAnswered = NoErr
                       /\ getFirmwareItem(firmwareID, VersionAnswered, hw[req.id])
                  ELSE getFirmwareItem(firmwareID, VersionAnswered, Nil)
    /\ (req.method = "GET" /\ req.route = FirmwareItemRoute)
       => (resp.status = 200
             <=> /\ calls[1].err = NoErr
                 /\ \E i \in DOMAIN buildFirmwareCollection(
                                       req.id, VersionAnswered,
                                       HardwareInfoErrAnswered, hw[req.id]) :
                       buildFirmwareCollection(
                           req.id, VersionAnswered,
                           HardwareInfoErrAnswered, hw[req.id])[i]
                         = FirmwareItemPath(req.id, req.item))

C28_Witness ==
    /\ req.method = "GET" /\ req.route = FirmwareItemRoute /\ req.item = "Netstack"
    /\ calls[1].items[3] # "" /\ resp.status = 200

\* The backend operations that read and change nothing.
ReadOperations == {"Get", "GetPowerState", "GetHardwareInfo", "GetVersion"}

\* C29: SendPowerAction is invoked only while handling a POST to the Reset
\* action path; every other handler (the GET handlers, the Chassis PATCH
\* handler, the 405 handlers) invokes at most the read operations, and over
\* any sequence of requests the backend's device state stays as it was.
C29_OnlyResetSendsPowerAction ==
    /\ \A i \in DOMAIN calls : calls[i].op = "SendPowerAction" => IsReset
    /\ ~IsReset => \A i \in DOMAIN calls : calls[i].op \in ReadOperations
    /\ \A i \in DOMAIN calls : calls[i].op \in ReadOperations \cup {"SendPowerAction"}
    /\ hw = [id \in Ids |-> Nil]

C29_Witness ==
    /\ req.method = "GET" /\ req.route = FirmwareRoute /\ resp.status = 200
    /\ Len(calls) = 2
    /\ calls[1].op = "GetVersion" /\ calls[2].op = "GetHardwareInfo"

\* C30: a Chassis or ServiceRoot request that a request validator rejects
\* (406 for Accept, 415 for Content-Type, 413 for the declared size) is
\* answered with no backend operation invoked and whatever its body holds;
\* the validators run in that order, the last two for methods other than GET
\* and HEAD only.
C30_ValidatorsRejectBeforeBackendAndBody ==
    (Handled /\ req.route \in {ServiceRootRoute, ChassisCollectionRoute, ChassisRoute})
    => /\ resp.status \in {406, 415, 413}
          => /\ calls = <<>> /\ resp.body = "error"
             /\ resp.code \notin {BaseMalformedJSONID, BasePropertyValueNotInListID}
       /\ C15_Unacceptable(req.accept) => resp.status = 406 /\ calls = <<>>
       /\ (req.method = "PATCH" /\ ~C15_Unacceptable(req.accept))
          => IF C16_Unsupported(req.contentType)
             THEN resp.status = 415 /\ calls = <<>>
             ELSE req.contentLength > 1048576 => resp.status = 413 /\ calls = <<>>

C30_Witness ==
    /\ req.method = "PATCH" /\ req.route = ChassisRoute
    /\ ~req.bodyOK /\ req.contentType = "text/plain"
    /\ resp.status = 415 /\ calls = <<>>

====
